---- MODULE Spec2Model ----
(***************************************************************************)
(* Verification model of the zero-config engine: the credential store     *)
(* (secrets/mod.rs), the container orchestrator (orchestrator/mod.rs) and  *)
(* the Engine coordinator (core/mod.rs).                                   *)
(*                                                                         *)
(* Strings are sequences of one-character strings, so that formatting,     *)
(* parsing and name matching are computed the way the code computes them.  *)
(***************************************************************************)
EXTENDS Integers, Sequences, FiniteSets, TLC

(***************************************************************************)
(* String helpers (the std::str operations the code calls).                *)
(***************************************************************************)

\* char::is_whitespace, restricted to the characters the model uses
Whitespace == {" ", "\n", "\t", "\r"}

\* index of the first occurrence of character c in s, 0 when absent
IndexOf(s, c) ==
    IF \E i \in 1..Len(s) : s[i] = c
    THEN CHOOSE i \in 1..Len(s) : s[i] = c /\ \A j \in 1..(i-1) : s[j] # c
    ELSE 0

\* str::starts_with
starts_with(s, p) == Len(p) <= Len(s) /\ SubSeq(s, 1, Len(p)) = p

\* str::ends_with
ends_with(s, p) == Len(p) <= Len(s) /\ SubSeq(s, Len(s) - Len(p) + 1, Len(s)) = p

\* str::contains (substring)
contains(s, p) == \E i \in 0..(Len(s) - Len(p)) : SubSeq(s, i + 1, i + Len(p)) = p

\* str::trim_start_matches(c)
RECURSIVE trim_start_matches(_, _)
trim_start_matches(s, c) ==
    IF s # <<>> /\ Head(s) = c THEN trim_start_matches(Tail(s), c) ELSE s

\* str::trim_start / trim_end / trim
RECURSIVE trim_start(_)
trim_start(s) == IF s # <<>> /\ Head(s) \in Whitespace THEN trim_start(Tail(s)) ELSE s

RECURSIVE trim_end(_)
trim_end(s) ==
    IF s # <<>> /\ s[Len(s)] \in Whitespace THEN trim_end(SubSeq(s, 1, Len(s) - 1)) ELSE s

trim(s) == trim_end(trim_start(s))

\* one line of str::lines: a trailing carriage return is not part of the line
StripCR(s) == IF s # <<>> /\ s[Len(s)] = "\r" THEN SubSeq(s, 1, Len(s) - 1) ELSE s

\* str::lines: split at line feeds; no empty last line after a final line feed
RECURSIVE lines(_)
lines(s) ==
    IF s = <<>> THEN <<>>
    ELSE LET i == IndexOf(s, "\n")
         IN  IF i = 0 THEN <<StripCR(s)>>
             ELSE <<StripCR(SubSeq(s, 1, i - 1))>> \o lines(SubSeq(s, i + 1, Len(s)))

\* str::split_once('='): <<found, key, value>>, split at the first '='
split_once(s) ==
    LET i == IndexOf(s, "=")
    IN  IF i = 0 THEN <<FALSE, <<>>, <<>>>>
        ELSE <<TRUE, SubSeq(s, 1, i - 1), SubSeq(s, i + 1, Len(s))>>

\* all orderings of a finite set (the iteration orders a HashMap can have)
Perms(S) ==
    {p \in [1..Cardinality(S) -> S] : \A i, j \in 1..Cardinality(S) : p[i] = p[j] => i = j}

\* HashMap::insert on a map kept as a function
MapInsert(m, k, v) == [x \in (DOMAIN m) \cup {k} |-> IF x = k THEN v ELSE m[x]]

EmptyMap == [x \in {} |-> <<>>]

(***************************************************************************)
(* Credential store (secrets/mod.rs).                                      *)
(***************************************************************************)

\* the two header lines and the blank line save() writes first
Header ==
    <<"#", " ", "Z", "e", "r", "o", "C", "o", "n", "f", "i", "g", " ", "G", "e", "n", "e",
    "r", "a", "t", "e", "d", " ", "C", "r", "e", "d", "e", "n", "t", "i", "a", "l", "s",
    "\n">>
    \o <<"#", " ", "D", "O", " ", "N", "O", "T", " ", "C", "O", "M", "M", "I", "T", " ", "T",
    "H", "I", "S", " ", "F", "I", "L", "E", " ", "T", "O", " ", "V", "E", "R", "S", "I",
    "O", "N", " ", "C", "O", "N", "T", "R", "O", "L", "\n", "\n">>


\* load with the value trimmed as well as the line
RECURSIVE load_lines_trimmed(_, _)
load_lines_trimmed(creds, ls) ==
    IF ls = <<>> THEN creds
    ELSE LET line == trim(Head(ls))
         IN  IF line = <<>> \/ Head(line) = "#" THEN load_lines_trimmed(creds, Tail(ls))
             ELSE LET kv == split_once(line)
                  IN  IF kv[1]
                      THEN load_lines_trimmed(MapInsert(creds, kv[2], trim(kv[3])), Tail(ls))
                      ELSE load_lines_trimmed(creds, Tail(ls))

\* CredentialStore::load, the loop over the lines of the file
RECURSIVE load_lines(_, _)
load_lines(creds, ls) ==
    IF ls = <<>> THEN creds
    ELSE LET line == trim(Head(ls))
         IN  IF line = <<>> \/ Head(line) = "#" THEN load_lines(creds, Tail(ls))
             ELSE LET kv == split_once(line)
                  IN  IF kv[1] THEN load_lines(MapInsert(creds, kv[2], kv[3]), Tail(ls))
                      ELSE load_lines(creds, Tail(ls))

\* CredentialStore::load: no file is success; a failed read is an error that
\* leaves the map alone; otherwise every KEY=value line is inserted
load(creds, f, readOk) ==
    IF ~f.exists THEN [ok |-> TRUE, credentials |-> creds]
    ELSE IF ~readOk THEN [ok |-> FALSE, credentials |-> creds]
    ELSE [ok |-> TRUE, credentials |-> load_lines(creds, lines(f.content))]

\* the loop of save with blanks around the '=' of each line
RECURSIVE save_entries_spaced(_, _)
save_entries_spaced(creds, order) ==
    IF order = <<>> THEN <<>>
    ELSE Head(order) \o <<" ", "=", " ">> \o creds[Head(order)] \o <<"\n">>
         \o save_entries_spaced(creds, Tail(order))

\* CredentialStore::save, the loop that formats one line per entry, in the
\* iteration order of the map
RECURSIVE save_entries(_, _)
save_entries(creds, order) ==
    IF order = <<>> THEN <<>>
    ELSE Head(order) \o <<"=">> \o creds[Head(order)] \o <<"\n">>
         \o save_entries(creds, Tail(order))

\* the text save() hands to std::fs::write
save_content(creds, order) == Header \o save_entries(creds, order)

\* Where a write that fails after the file was opened can stop. The file is
\* truncated on open and filled front to back, so it is left holding a prefix
\* of the text. Prefixes that end inside the header all parse to the empty map
\* and are represented by the empty file; past the header the write can stop
\* after any '=' and after any line feed.
CutPoints(content) ==
    {0} \cup {n \in Len(Header)..(Len(content) - 1) : content[n] \in {"=", "\n"}}

\* the k-th cut point in ascending order (counting from 0), the last one when
\* there are fewer
CutAt(content, k) ==
    LET S == CutPoints(content)
    IN  IF k >= Cardinality(S) THEN CHOOSE n \in S : \A m \in S : m <= n
        ELSE CHOOSE n \in S : Cardinality({m \in S : m < n}) = k

\* the outcomes of std::fs::write(path, content): complete ("ok"), refused
\* before the file was opened, or failed after it was truncated ("cut", at the
\* nth cut point)
WriteOutcomes(cuts) ==
    {[kind |-> "ok", nth |-> 0], [kind |-> "refused", nth |-> 0]}
    \cup {[kind |-> "cut", nth |-> k] : k \in cuts}

\* std::fs::write: File::create truncates the file, write_all fills it
fs_write(f, content, out) ==
    IF out.kind = "ok" THEN [exists |-> TRUE, content |-> content]
    ELSE IF out.kind = "refused" THEN f
    ELSE [exists |-> TRUE, content |-> SubSeq(content, 1, CutAt(content, out.nth))]

\* CredentialStore::save: the result and the file it leaves. order lists the
\* keys in the iteration order of the map (keys not in the map are skipped)
save(creds, f, order, out) ==
    LET present(k) == k \in DOMAIN creds
    IN  [ok |-> out.kind = "ok",
         file |-> fs_write(f, save_content(creds, SelectSeq(order, present)), out)]

\* CredentialStore::get_or_generate: the stored value when the key is present,
\* otherwise the generator's value, inserted into the map (and nothing else)
get_or_generate(creds, key, gen) ==
    IF key \in DOMAIN creds
    THEN [value |-> creds[key], credentials |-> creds, generated |-> FALSE]
    ELSE [value |-> gen, credentials |-> MapInsert(creds, key, gen), generated |-> TRUE]


(***************************************************************************)
(* Secret generator (secrets/mod.rs).                                      *)
(***************************************************************************)

\* the 62 characters generate_alphanumeric draws from
CHARSET ==
    <<"A", "B", "C", "D", "E", "F", "G", "H", "I", "J", "K", "L", "M", "N", "O", "P", "Q",
      "R", "S", "T", "U", "V", "W", "X", "Y", "Z", "a", "b", "c", "d", "e", "f", "g", "h",
      "i", "j", "k", "l", "m", "n", "o", "p", "q", "r", "s", "t", "u", "v", "w", "x", "y",
      "z", "0", "1", "2", "3", "4", "5", "6", "7", "8", "9">>

\* the digits of hex::encode
HEX == <<"0", "1", "2", "3", "4", "5", "6", "7", "8", "9", "a", "b", "c", "d", "e", "f">>

\* generate_hex(length): two digits for each of length random bytes, the i-th
\* byte being rng[i] - 1
generate_hex(length, rng) ==
    [i \in 1..(2 * length) |->
        LET byte == rng[(i + 1) \div 2] - 1
        IN  IF i % 2 = 1 THEN HEX[(byte \div 16) + 1] ELSE HEX[(byte % 16) + 1]]

\* generate_alphanumeric(length): one CHARSET character per position, rng[i]
\* being the index the random generator returns for position i (1-based)
generate_alphanumeric(length, rng) == [i \in 1..length |-> CHARSET[rng[i]]]

JwtSecretLen == 64

\* generate_jwt_secret
generate_jwt_secret(rng) == generate_alphanumeric(JwtSecretLen, rng)

ApiKeyLen == 32

\* generate_api_key
generate_api_key(rng) == generate_alphanumeric(ApiKeyLen, rng)

\* generate_uuid: Uuid::new_v4 in its hyphenated form, 32 hex digits in
\* groups of 8, 4, 4, 4 and 12, the version digit 4 and a variant digit of
\* 8, 9, a or b
generate_uuid(rng) ==
    [i \in 1..36 |->
        IF i \in {9, 14, 19, 24} THEN "-"
        ELSE IF i = 15 THEN "4"
        ELSE IF i = 20 THEN HEX[9 + (rng[i] % 4)]
        ELSE HEX[(rng[i] % 16) + 1]]

DbPasswordLen == 24

\* generate_db_password
generate_db_password(rng) == generate_alphanumeric(DbPasswordLen, rng)

\* number of distinct random streams the model draws passwords from
NumRand == 2

\* the random streams of the model: stream r returns index r at every position
RngDraws == {[i \in 1..DbPasswordLen |-> r] : r \in 1..NumRand}

\* the random stream in which gen_range(0..CHARSET.len()) returns first and
\* then, at each call, a number step higher (modulo the length of CHARSET)
RandomStream(first, step) ==
    [i \in 1..JwtSecretLen |-> ((first + (i - 1) * step) % Len(CHARSET)) + 1]

(***************************************************************************)
(* EnvManager (secrets/mod.rs).                                            *)
(***************************************************************************)

\* the value that asks process_env_vars for a generated value
AutoGenerate ==
    <<"a", "u", "t", "o", "-", "g", "e", "n", "e", "r", "a", "t", "e">>

\* str::to_lowercase on the characters of CHARSET
to_lowercase(s) ==
    [i \in DOMAIN s |->
        IF \E j \in 1..26 : CHARSET[j] = s[i]
        THEN CHARSET[(CHOOSE j \in 1..26 : CHARSET[j] = s[i]) + 26]
        ELSE s[i]]

\* the fixed values auto_generate_for_key returns for the keys of URLs
DatabaseUrl ==
    <<"p", "o", "s", "t", "g", "r", "e", "s", "q", "l", ":", "/", "/", "z", "e", "r",
      "o", "c", "o", "n", "f", "i", "g", ":", "z", "e", "r", "o", "c", "o", "n", "f",
      "i", "g", "@", "l", "o", "c", "a", "l", "h", "o", "s", "t", ":", "5", "4", "3",
      "2", "/", "z", "e", "r", "o", "c", "o", "n", "f", "i", "g">>

RedisUrl ==
    <<"r", "e", "d", "i", "s", ":", "/", "/", "l", "o", "c", "a", "l", "h", "o", "s",
      "t", ":", "6", "3", "7", "9">>

MongodbUrl ==
    <<"m", "o", "n", "g", "o", "d", "b", ":", "/", "/", "l", "o", "c", "a", "l", "h",
      "o", "s", "t", ":", "2", "7", "0", "1", "7", "/", "z", "e", "r", "o", "c", "o",
      "n", "f", "i", "g">>

RabbitmqUrl ==
    <<"a", "m", "q", "p", ":", "/", "/", "a", "d", "m", "i", "n", ":", "a", "d", "m",
      "i", "n", "@", "l", "o", "c", "a", "l", "h", "o", "s", "t", ":", "5", "6", "7",
      "2">>

\* EnvManager::auto_generate_for_key: the first arm that the key, in lower
\* case, falls under
auto_generate_for_key(key, rng) ==
    LET key_lower == to_lowercase(key)
        has(t) == contains(key_lower, t)
    IN  IF has(<<"j", "w", "t">>)
           \/ has(<<"s", "e", "c", "r", "e", "t", "_", "k", "e", "y">>)
        THEN generate_jwt_secret(rng)
        ELSE IF has(<<"a", "p", "i", "_", "k", "e", "y">>) THEN generate_api_key(rng)
        ELSE IF has(<<"p", "a", "s", "s", "w", "o", "r", "d">>) \/ has(<<"p", "a", "s", "s">>)
        THEN generate_db_password(rng)
        ELSE IF has(<<"u", "u", "i", "d">>) \/ has(<<"i", "d">>) THEN generate_uuid(rng)
        ELSE IF has(<<"d", "a", "t", "a", "b", "a", "s", "e", "_", "u", "r", "l">>)
        THEN DatabaseUrl
        ELSE IF has(<<"r", "e", "d", "i", "s", "_", "u", "r", "l">>) THEN RedisUrl
        ELSE IF has(<<"m", "o", "n", "g", "o", "d", "b", "_", "u", "r", "l">>)
        THEN MongodbUrl
        ELSE IF has(<<"r", "a", "b", "b", "i", "t", "m", "q", "_", "u", "r", "l">>)
        THEN RabbitmqUrl
        ELSE generate_alphanumeric(32, rng)

\* EnvManager::process_env_vars, the loop over the entries of env_config in
\* the order the HashMap yields them
RECURSIVE process_env_vars(_, _, _, _)
process_env_vars(em, env_config, order, rng) ==
    IF order = <<>> THEN em
    ELSE LET key == Head(order)
             value == env_config[key]
             generated == auto_generate_for_key(key, rng)
         IN  IF value = AutoGenerate
             THEN process_env_vars(
                      [em EXCEPT !.secrets = MapInsert(@, key, generated),
                                 !.env_vars = MapInsert(@, key, generated)],
                      env_config, Tail(order), rng)
             ELSE process_env_vars([em EXCEPT !.env_vars = MapInsert(@, key, value)],
                                   env_config, Tail(order), rng)

(***************************************************************************)
(* Project, services and names.                                            *)
(***************************************************************************)

ProjectName == <<"z">>

mysql == <<"m", "y", "s", "q", "l">>
web == <<"w", "e", "b">>
z_web == <<"z", "_", "w", "e", "b">>

\* the arms of the match in get_service_env_vars (mysql is above)
postgres == <<"p", "o", "s", "t", "g", "r", "e", "s">>
mongodb == <<"m", "o", "n", "g", "o", "d", "b">>
mongo == <<"m", "o", "n", "g", "o">>
rabbitmq == <<"r", "a", "b", "b", "i", "t", "m", "q">>

\* the service names a configuration of the model can declare, in the order
\* the configuration file lists the ones it declares
PoolOrder == <<mysql, web, z_web>>

ServicePool == {PoolOrder[i] : i \in DOMAIN PoolOrder}

\* most services declared in one configuration
MaxServices == 2

\* a container name made of the project name alone
container_name_of_project(project, service) == project

\* format!("{}_{}", project_name, service_name)
container_name(project, service) == project \o <<"_">> \o service

\* a credential table that holds an entry for every service name
CredentialSuffixAny(service) == <<"_", "P", "A", "S", "S", "W", "O", "R", "D">>

\* the credential table of get_service_env_vars: the suffix of the key a
\* service's password is stored under, <<>> for a service outside the table
CredentialSuffix(service) ==
    IF service = postgres
    THEN <<"_", "P", "O", "S", "T", "G", "R", "E", "S", "_", "P", "A", "S", "S", "W",
         "O", "R", "D">>
    ELSE IF service = mysql
    THEN <<"_", "M", "Y", "S", "Q", "L", "_", "R", "O", "O", "T", "_", "P", "A", "S",
         "S", "W", "O", "R", "D">>
    ELSE IF service = mongodb \/ service = mongo
    THEN <<"_", "M", "O", "N", "G", "O", "_", "I", "N", "I", "T", "D", "B", "_", "R",
         "O", "O", "T", "_", "P", "A", "S", "S", "W", "O", "R", "D">>
    ELSE IF service = rabbitmq
    THEN <<"_", "R", "A", "B", "B", "I", "T", "M", "Q", "_", "D", "E", "F", "A", "U",
         "L", "T", "_", "P", "A", "S", "S">>
    ELSE <<>>

\* format!("{}_POSTGRES_PASSWORD", service_name) and its siblings
credential_key(service) == service \o CredentialSuffix(service)


(***************************************************************************)
(* The container engine as the orchestrator sees it (bollard calls).       *)
(* containers maps a container name to its status, the host port it binds  *)
(* and the generated password in its environment (<<>> when it has none,   *)
(* <<v>> for password v). A container's id is modelled by its name.        *)
(***************************************************************************)

NoContainers == [n \in {} |-> [status |-> "running", host_port |-> 0, password |-> <<>>]]

\* docker.remove_container(name, force)
docker_remove(cs, name) == [n \in (DOMAIN cs) \ {name} |-> cs[n]]

\* docker.create_container(name, config)
docker_create(cs, name, port, pw) ==
    [n \in (DOMAIN cs) \cup {name} |->
        IF n = name THEN [status |-> "created", host_port |-> port, password |-> pw]
        ELSE cs[n]]

\* the engine refuses to start a container whose host port a running
\* container already holds
PortTaken(cs, name) ==
    \E n \in (DOMAIN cs) \ {name} :
        cs[n].status = "running" /\ cs[n].host_port = cs[name].host_port

\* docker.start_container(name)
docker_start(cs, name) == [cs EXCEPT ![name].status = "running"]

\* docker.stop_container(name): a running container exits, any other stays
docker_stop(cs, name) ==
    [cs EXCEPT ![name].status = IF @ = "running" THEN "exited" ELSE @]

\* the name of a container as the engine's list reports it
ReportedName(n) == <<"/">> \o n

\* ContainerOrchestrator::list_containers: every container, running or not,
\* whose name matches the engine's name filter, i.e. contains the project name
list_containers(cs, project) == {n \in DOMAIN cs : contains(n, project)}

(***************************************************************************)
(* Container orchestrator (orchestrator/mod.rs).                           *)
(***************************************************************************)

\* ContainerOrchestrator::get_service_env_vars: the password of a service of
\* the credential table, read from the store or generated, with the store
\* saved afterwards and the result of save dropped; nothing for other services
get_service_env_vars(creds, f, service, rng, order, out) ==
    IF CredentialSuffix(service) = <<>>
    THEN [password |-> <<>>, credentials |-> creds, file |-> f,
          generated |-> FALSE, saved |-> FALSE, save_ok |-> TRUE]
    ELSE LET g == get_or_generate(creds, credential_key(service), generate_db_password(rng))
             w == save(g.credentials, f, order, out)
         IN  [password |-> <<g.value>>, credentials |-> g.credentials, file |-> w.file,
              generated |-> g.generated, saved |-> TRUE, save_ok |-> w.ok]

\* pull_image that reports no error of the stream
pull_image_ignored(fault) == "ok"

\* ContainerOrchestrator::pull_image: the first error of the pull stream is
\* returned
pull_image(fault) == IF fault = "pull" THEN "err" ELSE "ok"

\* ContainerOrchestrator::remove_container: the forced removal; the engine's
\* "No such container" is success, any other error of the engine is returned.
\* removed tells that a container was removed.
remove_container(cs, name, fault) ==
    IF fault = "remove" THEN [result |-> "err", containers |-> cs, removed |-> FALSE]
    ELSE IF name \notin DOMAIN cs
    THEN [result |-> "ok", containers |-> cs, removed |-> FALSE]
    ELSE [result |-> "ok", containers |-> docker_remove(cs, name), removed |-> TRUE]

\* start_service from the creation on: create the container, start it. after
\* is what start_service returns when the creation fails.
create_and_start(after, service, name, port, pw, fault) ==
    IF fault = "create" \/ name \in DOMAIN after.containers THEN after
    ELSE LET created == docker_create(after.containers, name, port, pw)
             started == [after EXCEPT !.containers = created,
                                      !.calls = Append(@, "start")]
         IN  IF fault = "start" \/ PortTaken(created, name)
             THEN started
             ELSE [started EXCEPT !.containers = docker_start(created, name),
                                  !.result = "ok", !.done = {service}]

\* what start_service returns when it stops at or before the environment
start_service_early(st, fault, in_async) ==
    [result |-> IF pull_image(fault) = "err" THEN "err" ELSE "panic",
     containers |-> st.containers, credentials |-> st.credentials, file |-> st.file,
     generated |-> FALSE, save_ok |-> TRUE, done |-> {}, logged |-> FALSE,
     replaced |-> FALSE, calls |-> <<"pull">>]

\* what start_service returns when the creation fails
start_service_after(env, rm) ==
    [result |-> "err", containers |-> rm.containers, credentials |-> env.credentials,
     file |-> env.file, generated |-> env.generated, save_ok |-> env.save_ok,
     done |-> {}, logged |-> rm.result = "err", replaced |-> rm.removed,
     calls |-> <<"pull", "remove", "create">>]

\* start_service that returns the error of remove_container
start_service_remove_fatal(st, service, port, fault, in_async, rng, order, out) ==
    LET name == container_name(ProjectName, service)
        env == get_service_env_vars(st.credentials, st.file, service, rng, order, out)
        rm == remove_container(st.containers, name, fault)
    IN  IF pull_image(fault) = "err" \/ in_async THEN start_service_early(st, fault, in_async)
        ELSE IF rm.result = "err"
        THEN [start_service_after(env, rm) EXCEPT !.calls = <<"pull", "remove">>]
        ELSE create_and_start(start_service_after(env, rm), service, name, port,
                              env.password, fault)

\* start_service that starts the container of the same name when there is one
start_service_reuse(st, service, port, fault, in_async, rng, order, out) ==
    LET name == container_name(ProjectName, service)
        env == get_service_env_vars(st.credentials, st.file, service, rng, order, out)
        kept == [result |-> "ok", containers |-> st.containers, removed |-> FALSE]
    IN  IF pull_image(fault) = "err" \/ in_async THEN start_service_early(st, fault, in_async)
        ELSE IF name \in DOMAIN st.containers
        THEN [start_service_after(env, kept) EXCEPT
                !.containers = docker_start(st.containers, name),
                !.result = "ok", !.done = {service}, !.calls = <<"pull", "start">>]
        ELSE create_and_start(start_service_after(env, kept), service, name, port,
                              env.password, fault)

\* ContainerOrchestrator::start_service. st holds containers, credentials and
\* file; done names the service when its container was started; calls lists
\* the requests made to the engine; logged tells that the removal failed and
\* was logged, replaced that a container of the same name was removed. The
\* steps: pull the image, assemble the environment
\* (Handle::block_on panics when the caller is itself a task of the runtime),
\* remove a container of the same name (a failure is only logged), create the
\* container, start it.
start_service(st, service, port, fault, in_async, rng, order, out) ==
    LET name == container_name(ProjectName, service)
        env == get_service_env_vars(st.credentials, st.file, service, rng, order, out)
        rm == remove_container(st.containers, name, fault)
    IN  IF pull_image(fault) = "err" \/ in_async THEN start_service_early(st, fault, in_async)
        ELSE create_and_start(start_service_after(env, rm), service, name, port,
                              env.password, fault)

\* docker.stop_container(name) as the engine answers it: an error of its own,
\* "No such container", or the container stopped
docker_stop_container(cs, name, fault) ==
    IF fault = "stop" THEN [response |-> "error", containers |-> cs]
    ELSE IF name \notin DOMAIN cs THEN [response |-> "No such container", containers |-> cs]
    ELSE [response |-> "ok", containers |-> docker_stop(cs, name)]

\* stop_service that returns every error of the engine
stop_service_strict(cs, service, fault) ==
    LET r == docker_stop_container(cs, container_name(ProjectName, service), fault)
    IN  [result |-> IF r.response = "ok" THEN "ok" ELSE "err",
         containers |-> r.containers, response |-> r.response]

\* ContainerOrchestrator::stop_service: stop {project}_{service}; a container
\* that does not exist is success, any other error of the engine is returned
stop_service(cs, service, fault) ==
    LET r == docker_stop_container(cs, container_name(ProjectName, service), fault)
    IN  [result |-> IF r.response \in {"ok", "No such container"} THEN "ok" ELSE "err",
         containers |-> r.containers, response |-> r.response]

\* ContainerOrchestrator::stop_all, the loop: each listed container whose name
\* starts with the project name is passed, by its container name, to
\* stop_service; failing is the container at which the engine reports an error
RECURSIVE stop_all_loop(_, _, _)
stop_all_loop(cs, names, failing) ==
    IF names = <<>> THEN [result |-> "ok", containers |-> cs]
    ELSE LET service_name == trim_start_matches(ReportedName(Head(names)), "/")
         IN  IF ~starts_with(service_name, ProjectName)
             THEN stop_all_loop(cs, Tail(names), failing)
             ELSE LET r == stop_service(cs, service_name,
                                        IF Head(names) = failing THEN "stop" ELSE "none")
                  IN  IF r.result = "ok" THEN stop_all_loop(r.containers, Tail(names), failing)
                      ELSE r

\* ContainerOrchestrator::stop_all: listed is the list the engine returned
stop_all(cs, listed, fault, failing) ==
    IF fault = "list" THEN [result |-> "err", containers |-> cs]
    ELSE stop_all_loop(cs, listed, IF fault = "stop" THEN failing ELSE <<>>)

\* ContainerOrchestrator::get_container_id: the listed containers whose name
\* is the service name or ends in "-" and the service name; the first one in
\* the engine's list is returned, none is "not found"
get_container_id(cs, service) ==
    {n \in list_containers(cs, ProjectName) :
        LET cname == trim_start_matches(ReportedName(n), "/")
        IN  cname = service \/ ends_with(cname, <<"-">> \o service)}


\* format!("zeroconfig_{}", project_name)
network_name(project) ==
    <<"z", "e", "r", "o", "c", "o", "n", "f", "i", "g", "_">> \o project

\* docker.create_network(CreateNetworkOptions): with check_duplicate the
\* engine refuses a name it already holds ("already exists"); without it the
\* engine adds a second network of that name
docker_create_network(nets, name, check_duplicate, fault) ==
    IF fault = "network" THEN [response |-> "error", networks |-> nets]
    ELSE IF check_duplicate /\ \E i \in DOMAIN nets : nets[i] = name
    THEN [response |-> "already exists", networks |-> nets]
    ELSE [response |-> "created", networks |-> Append(nets, name)]

\* create_network asking the engine without check_duplicate
create_network_unchecked(nets, fault) ==
    LET r == docker_create_network(nets, network_name(ProjectName), FALSE, fault)
    IN  [result |-> IF r.response \in {"created", "already exists"} THEN "ok" ELSE "err",
         networks |-> r.networks, response |-> r.response]

\* ContainerOrchestrator::create_network: "already exists" counts as success,
\* any other error of the engine is returned
create_network(nets, fault) ==
    LET r == docker_create_network(nets, network_name(ProjectName), TRUE, fault)
    IN  [result |-> IF r.response \in {"created", "already exists"} THEN "ok" ELSE "err",
         networks |-> r.networks, response |-> r.response]

(***************************************************************************)
(* Health checker (health/mod.rs).                                         *)
(* What the engine reports of a container is inspect = [ok, state,         *)
(* native]: whether inspect_container answered, state.status ("unknown"    *)
(* when absent) and state.health.status ("none" when the container         *)
(* declares no health check). What running the probe command does is       *)
(* probe = [started, exit, marker]: whether the exec could be created and  *)
(* started, its exit code, and whether its output holds one of the         *)
(* markers "accepting connections" and "ready".                            *)
(***************************************************************************)

\* format!("{:?}", s) of a status enum of the engine's client library: the
\* name of the variant as the library spells it, in capitals ("upper") or
\* capitalised ("camel"); "Unknown" stands in for an absent status
DebugName(v, style) ==
    IF v = "unknown" THEN "Unknown"
    ELSE IF style = "upper"
    THEN [created |-> "CREATED", running |-> "RUNNING", exited |-> "EXITED",
          starting |-> "STARTING", healthy |-> "HEALTHY", unhealthy |-> "UNHEALTHY",
          no_check |-> "NONE"][v]
    ELSE [created |-> "Created", running |-> "Running", exited |-> "Exited",
          starting |-> "Starting", healthy |-> "Healthy", unhealthy |-> "Unhealthy",
          no_check |-> "None"][v]

redis == <<"r", "e", "d", "i", "s">>
elasticsearch == <<"e", "l", "a", "s", "t", "i", "c", "s", "e", "a", "r", "c", "h">>

\* HealthChecker::get_health_command: the first arm whose marker the service
\* name contains; no command for any other service
get_health_command(service_name) ==
    IF contains(service_name, postgres) THEN <<"pg_isready", "-U", "postgres">>
    ELSE IF contains(service_name, redis) THEN <<"redis-cli", "ping">>
    ELSE IF contains(service_name, mongo)
    THEN <<"mongosh", "--eval", "db.adminCommand('ping')">>
    ELSE IF contains(service_name, mysql) THEN <<"mysqladmin", "ping", "-h", "localhost">>
    ELSE IF contains(service_name, rabbitmq) THEN <<"rabbitmq-diagnostics", "ping">>
    ELSE IF contains(service_name, elasticsearch)
    THEN <<"curl", "-f", "http://localhost:9200/_cluster/health">>
    ELSE <<>>

\* HealthChecker::perform_service_health_check: Ok(message) or Err; the exit
\* code of the probe is not read
perform_service_health_check(service_name, probe) ==
    IF get_health_command(service_name) = <<>>
    THEN [ok |-> TRUE, message |-> "Running (no health check available)"]
    ELSE IF ~probe.started THEN [ok |-> FALSE, message |-> "exec error"]
    ELSE IF probe.marker THEN [ok |-> TRUE, message |-> "Healthy"]
    ELSE [ok |-> TRUE, message |-> "Running"]

\* check_container that reads the declared health check before the state
check_container_health_first(inspect, service_name, probe, style) ==
    IF ~inspect.ok
    THEN [is_healthy |-> FALSE, message |-> <<"Failed to inspect container: ", "error">>,
          probed |-> FALSE, err |-> FALSE]
    ELSE IF inspect.native # "none"
    THEN [is_healthy |-> DebugName(inspect.native, style) = "Healthy",
          message |-> <<DebugName(inspect.native, style)>>, probed |-> FALSE,
          err |-> FALSE]
    ELSE IF DebugName(inspect.state, style) # "Running"
    THEN [is_healthy |-> FALSE,
          message |-> <<"Container not running: ", DebugName(inspect.state, style)>>,
          probed |-> FALSE, err |-> FALSE]
    ELSE LET r == perform_service_health_check(service_name, probe)
         IN  [is_healthy |-> r.ok,
              message |-> IF r.ok THEN <<r.message>>
                          ELSE <<"Health check failed: ", r.message>>,
              probed |-> get_health_command(service_name) # <<>>, err |-> FALSE]

\* check_container that returns the error of inspect_container
check_container_inspect_fatal(inspect, service_name, probe, style) ==
    IF ~inspect.ok
    THEN [is_healthy |-> FALSE, message |-> <<"error">>, probed |-> FALSE, err |-> TRUE]
    ELSE check_container_health_first(
             [inspect EXCEPT !.native = IF DebugName(inspect.state, style) = "Running"
                                        THEN @ ELSE "none"],
             service_name, probe, style)

\* HealthChecker::check_container: the HealthStatus (is_healthy and
\* status_message), whether the probe command was run (probed), and whether
\* the call returned Err instead of a HealthStatus (err: it never does)
check_container(inspect, service_name, probe, style) ==
    IF ~inspect.ok
    THEN [is_healthy |-> FALSE, message |-> <<"Failed to inspect container: ", "error">>,
          probed |-> FALSE, err |-> FALSE]
    ELSE IF DebugName(inspect.state, style) # "Running"
    THEN [is_healthy |-> FALSE,
          message |-> <<"Container not running: ", DebugName(inspect.state, style)>>,
          probed |-> FALSE, err |-> FALSE]
    ELSE IF inspect.native # "none"
    THEN [is_healthy |-> DebugName(inspect.native, style) = "Healthy",
          message |-> <<DebugName(inspect.native, style)>>, probed |-> FALSE,
          err |-> FALSE]
    ELSE LET r == perform_service_health_check(service_name, probe)
         IN  [is_healthy |-> r.ok,
              message |-> IF r.ok THEN <<r.message>>
                          ELSE <<"Health check failed: ", r.message>>,
              probed |-> get_health_command(service_name) # <<>>, err |-> FALSE]

\* seconds wait_for_healthy sleeps between two polls
PollInterval == 2

\* the deadline test that never ends the wait
deadline_never(elapsed, timeout) == FALSE

\* wait_for_healthy, the deadline test: start.elapsed() > timeout
deadline_passed(elapsed, timeout) == elapsed > timeout

\* one turn of wait_for_healthy with the deadline tested before the status
wait_turn_deadline_first(status, elapsed, timeout) ==
    IF status.err THEN "failed"
    ELSE IF deadline_passed(elapsed, timeout) THEN "timed_out"
    ELSE IF status.is_healthy THEN "healthy"
    ELSE "sleeping"

\* wait_for_healthy, one turn of the loop after the check: `?` returns the
\* error of check_container ("failed"), a healthy status is returned
\* ("healthy"), past the deadline the wait fails ("timed_out"), otherwise it
\* sleeps and polls again ("sleeping")
wait_turn(status, elapsed, timeout) ==
    IF status.err THEN "failed"
    ELSE IF status.is_healthy THEN "healthy"
    ELSE IF deadline_passed(elapsed, timeout) THEN "timed_out"
    ELSE "sleeping"

(***************************************************************************)
(* Runtime discovery (runtime/container_runtime.rs). A detection is given  *)
(* the answers of its probes: installed, the runtimes whose version        *)
(* command succeeds, and running, the ones whose status command succeeds.  *)
(***************************************************************************)

\* the runtimes detect_runtimes probes, in the order of its list
all_runtimes ==
    <<"Docker", "Podman", "Minikube", "Kubernetes", "DockerCompose", "Containerd",
      "CriO", "Nerdctl", "Colima">>

\* detect_runtimes, the loop: an installed runtime is appended to the
\* available ones; while none is preferred, Docker and then Podman are asked
\* whether they run, no other runtime is
RECURSIVE detect_loop(_, _, _, _)
detect_loop(mgr, rts, installed, running) ==
    IF rts = <<>> THEN mgr
    ELSE LET runtime == Head(rts)
             pushed == [mgr EXCEPT !.available_runtimes = Append(@, runtime)]
             chosen == IF /\ pushed.preferred_runtime = "none"
                          /\ runtime \in {"Docker", "Podman"}
                          /\ runtime \in running
                       THEN [pushed EXCEPT !.preferred_runtime = runtime]
                       ELSE pushed
         IN  IF runtime \in installed
             THEN detect_loop(chosen, Tail(rts), installed, running)
             ELSE detect_loop(mgr, Tail(rts), installed, running)

\* detect_runtimes that succeeds whatever it found
detect_runtimes_lenient(mgr, installed, running) ==
    [manager |-> detect_loop(mgr, all_runtimes, installed, running), result |-> "ok"]

\* ContainerRuntimeManager::detect_runtimes: the manager after the call and
\* what the call returns
detect_runtimes(mgr, installed, running) ==
    LET m == detect_loop(mgr, all_runtimes, installed, running)
    IN  IF m.available_runtimes = <<>> THEN [manager |-> m, result |-> "err"]
        ELSE [manager |-> [m EXCEPT !.preferred_runtime =
                                 IF @ = "none" THEN Head(m.available_runtimes) ELSE @],
              result |-> "ok"]

\* ContainerRuntimeManager::get_preferred_runtime
get_preferred_runtime(mgr) ==
    IF mgr.preferred_runtime = "none" THEN [result |-> "err", runtime |-> "none"]
    ELSE [result |-> "ok", runtime |-> mgr.preferred_runtime]

\* set_preferred_runtime without the test of availability
set_preferred_runtime_unchecked(mgr, runtime) ==
    [manager |-> [mgr EXCEPT !.preferred_runtime = runtime], result |-> "ok"]

\* ContainerRuntimeManager::set_preferred_runtime
set_preferred_runtime(mgr, runtime) ==
    IF \A i \in DOMAIN mgr.available_runtimes : mgr.available_runtimes[i] # runtime
    THEN [manager |-> mgr, result |-> "err"]
    ELSE [manager |-> [mgr EXCEPT !.preferred_runtime = runtime], result |-> "ok"]

(***************************************************************************)
(* Log streams of the desktop shell (ui/src-tauri/src/lib.rs). handles     *)
(* maps a service name to the id of the task registered for it.            *)
(***************************************************************************)

\* AbortHandle::abort: a running task is aborted, a task that ended is not
\* changed
abort(tks, t) ==
    [tks EXCEPT ![t].state = IF @ = "running" THEN "aborted" ELSE @]

\* handles.remove(service_name) followed by abort of the handle removed, the
\* opening of start_log_stream and the whole of stop_log_stream
remove_and_abort(ls, service_name) ==
    IF service_name \in DOMAIN ls.handles
    THEN [ls EXCEPT
            !.handles = [x \in (DOMAIN ls.handles) \ {service_name} |-> ls.handles[x]],
            !.tasks = abort(ls.tasks, ls.handles[service_name])]
    ELSE ls

\* stop_log_stream that ends every stream
stop_all_log_streams(ls, service_name) ==
    [ls EXCEPT !.handles = <<>>,
               !.tasks = [t \in DOMAIN ls.tasks |-> [ls.tasks[t] EXCEPT !.state = "aborted"]]]

\* stop_log_stream
stop_log_stream(ls, service_name) == remove_and_abort(ls, service_name)

\* start_log_stream from tokio::spawn on: the task runs, its handle is
\* registered under the service name in place of any handle held there
spawn_and_insert(ls, service_name) ==
    LET t == Len(ls.tasks) + 1
    IN  [ls EXCEPT
           !.tasks = Append(@, [service |-> service_name, state |-> "running"]),
           !.handles = [x \in (DOMAIN ls.handles) \cup {service_name} |->
                           IF x = service_name THEN t ELSE ls.handles[x]]]

(***************************************************************************)
(* Engine (core/mod.rs).                                                   *)
(***************************************************************************)

\* first host port allocate_ports hands out
PortBase == 5000

\* host port Engine::start falls back to for a service without an allocation
FallbackPort == 8080

NoPorts == [x \in {} |-> 0]

\* allocate_ports without the increment
RECURSIVE allocate_loop_stuck(_, _, _)
allocate_loop_stuck(ports, svcs, port) ==
    IF svcs = <<>> THEN ports
    ELSE allocate_loop_stuck(MapInsert(ports, Head(svcs), port), Tail(svcs), port)

\* Engine::allocate_ports, the loop over get_services()
RECURSIVE allocate_loop(_, _, _)
allocate_loop(ports, svcs, port) ==
    IF svcs = <<>> THEN ports
    ELSE allocate_loop(MapInsert(ports, Head(svcs), port), Tail(svcs), port + 1)

\* allocate_ports counting on from the ports already allocated
allocate_ports_onward(ports, svcs) ==
    allocate_loop(ports, svcs, PortBase + Cardinality(DOMAIN ports))

\* Engine::allocate_ports
allocate_ports(ports, svcs) == allocate_loop(ports, svcs, PortBase)

\* ZeroConfig::get_services: the entries of the services HashMap in its
\* iteration order
get_services(cfg) == cfg.iteration

\* the loop of Engine::start that goes on to the next service after a failure
RECURSIVE start_loop_continue(_, _, _, _, _, _, _, _, _)
start_loop_continue(st, svcs, ports, fault_at, fault, in_async, rng, order, out) ==
    IF svcs = <<>>
    THEN [result |-> "ok", containers |-> st.containers, credentials |-> st.credentials,
          file |-> st.file, generated |-> FALSE, save_ok |-> TRUE, done |-> {},
          attempted |-> <<>>]
    ELSE LET service_name == Head(svcs)
             port == IF service_name \in DOMAIN ports THEN ports[service_name]
                     ELSE FallbackPort
             r == start_service(st, service_name, port,
                                IF service_name = fault_at THEN fault ELSE "none",
                                in_async, rng, order, out)
             rest == start_loop_continue(
                         [containers |-> r.containers, credentials |-> r.credentials,
                          file |-> r.file],
                         Tail(svcs), ports, fault_at, fault, in_async, rng, order, out)
         IN  [rest EXCEPT !.result = IF r.result # "ok" THEN r.result ELSE @,
                          !.generated = @ \/ r.generated,
                          !.save_ok = @ /\ r.save_ok,
                          !.done = @ \cup r.done,
                          !.attempted = <<service_name>> \o @]

\* Engine::start, the loop: the services in iteration order, each on its
\* allocated port or on 8080, ending at the first one that fails; attempted
\* lists the services start_service was called for
RECURSIVE start_loop(_, _, _, _, _, _, _, _, _)
start_loop(st, svcs, ports, fault_at, fault, in_async, rng, order, out) ==
    IF svcs = <<>>
    THEN [result |-> "ok", containers |-> st.containers, credentials |-> st.credentials,
          file |-> st.file, generated |-> FALSE, save_ok |-> TRUE, done |-> {},
          attempted |-> <<>>]
    ELSE LET service_name == Head(svcs)
             port == IF service_name \in DOMAIN ports THEN ports[service_name]
                     ELSE FallbackPort
             r == start_service(st, service_name, port,
                                IF service_name = fault_at THEN fault ELSE "none",
                                in_async, rng, order, out)
         IN  IF r.result # "ok"
             THEN [result |-> r.result, containers |-> r.containers,
                   credentials |-> r.credentials, file |-> r.file,
                   generated |-> r.generated, save_ok |-> r.save_ok, done |-> r.done,
                   attempted |-> <<service_name>>]
             ELSE LET rest == start_loop(
                                  [containers |-> r.containers,
                                   credentials |-> r.credentials, file |-> r.file],
                                  Tail(svcs), ports, fault_at, fault, in_async, rng,
                                  order, out)
                  IN  [rest EXCEPT !.generated = @ \/ r.generated,
                                   !.save_ok = @ /\ r.save_ok,
                                   !.done = @ \cup r.done,
                                   !.attempted = <<service_name>> \o @]

\* Engine::start_service, the port: the allocated one, else 5000 plus the
\* number of allocations (nothing is recorded)
service_port(ports, service_name) ==
    IF service_name \in DOMAIN ports THEN ports[service_name]
    ELSE PortBase + Cardinality(DOMAIN ports)

(***************************************************************************)
(* State.                                                                  *)
(***************************************************************************)

VARIABLES
    config,           \* ZeroConfig: the declared services, in the order of the
                      \* file (declared) and of the HashMap (iteration)
    async_ctx,        \* whether the caller of the Engine is a task of the runtime
    allocated_ports,  \* Engine.allocated_ports
    credentials,      \* CredentialStore.credentials of the live store
    file,             \* the credential file .zeroconfig.env on disk
    containers,       \* the containers the engine holds
    networks,         \* the networks the engine holds, by name, oldest first
    progress,         \* phase: "new", "built" (build succeeded), "up" (start
                      \* succeeded after it); started: the services whose
                      \* container a successful start_service left running
    last,             \* the last operation and what it returned
    ledger,           \* which generated credentials were saved, and where
    inputs,           \* the keys and generator values a run of the store draws from
    tasks,            \* the threads asking one orchestrator for a service's
                      \* environment, and the holder of the store's mutex
    health,           \* the HealthChecker: the container it inspects, the last
                      \* HealthStatus, and the progress of wait_for_healthy
    manager,          \* the ContainerRuntimeManager and the probes of its last
                      \* detection
    log_streams,      \* the LogStreamManager of the desktop shell: the handles it
                      \* registered and the tasks that were spawned
    env_manager,      \* the EnvManager: env_vars and secrets
    stores            \* the credential stores of the orchestrators that work on
                      \* one project directory, each in a process of its own

vars == <<config, async_ctx, allocated_ports, credentials, file, containers, networks,
          progress, last, ledger, inputs, tasks, health, manager, log_streams,
          env_manager, stores>>

\* the managers that are not part of the Engine
other_vars == <<manager, log_streams, env_manager, stores>>

engine_vars == <<config, async_ctx, allocated_ports, containers, networks, progress>>

\* the services of S in the order of the configuration file
Declared(S) == LET in_S(x) == x \in S IN SelectSeq(PoolOrder, in_S)

Range(q) == {q[i] : i \in DOMAIN q}

NoFile == [exists |-> FALSE, content |-> <<>>]

\* the record kept of an operation: its name, its argument (a service name or
\* a credential key), what it returned, the error the container engine
\* reported in it (fault), the calls it made to the container engine after
\* listing the containers (calls), the length asked of the secret generator
\* (length), and what the properties below need
Op(op, service, result) ==
    [op |-> op, service |-> service, result |-> result, target |-> <<>>,
     generated |-> FALSE, save_ok |-> TRUE, value |-> <<>>, flag |-> FALSE,
     fault |-> "none", calls |-> <<>>, length |-> 0]

\* The ledger of the store's history. generated: the <<key, value>> pairs the
\* generator produced for the live store. known: the pairs that were generated
\* and then saved, by the live store itself or by the store whose file it
\* loaded, provided that file carried only plain keys and values. disk: the
\* generated pairs of the last complete save, none after a write cut short.
\* plain: whether the map of the last complete save was plain.
\* saved: the map of the last complete save, whole: the file holds all of it.
NoLedger ==
    [generated |-> {}, known |-> {}, disk |-> {}, plain |-> TRUE,
     saved |-> EmptyMap, whole |-> FALSE]

\* no thread is asking for an environment; the mutex is free (holder 0)
NoTasks == [lock |-> 0, of |-> <<>>]

\* the HealthChecker at rest: nothing inspected, no wait in progress
NoHealth ==
    [pc |-> "idle", style |-> "upper", service |-> <<>>,
     inspect |-> [ok |-> TRUE, state |-> "none", native |-> "none"],
     probe |-> [started |-> FALSE, exit |-> 0, marker |-> FALSE],
     status |-> [is_healthy |-> FALSE, message |-> <<>>, probed |-> FALSE,
                 err |-> FALSE],
     timeout |-> 0, now |-> 0, polls |-> 0, late |-> FALSE]

\* ContainerRuntimeManager::new, before any detection (no probe was made);
\* op, arg and result are the last call on the manager and what it returned,
\* installed and running the probe answers of the last detection, detections
\* the number of detections the manager went through
NoManager ==
    [available_runtimes |-> <<>>, preferred_runtime |-> "none",
     op |-> "new", arg |-> "none", result |-> "ok",
     installed |-> {}, running |-> {}, detections |-> 0]

\* LogStreamManager::new: no handle; no task was spawned (tasks, in the order
\* they were spawned, a task's id being its place), no start_log_stream is
\* under way (pending, the services they were called for)
NoLogStreams == [handles |-> <<>>, tasks |-> <<>>, pending |-> <<>>]

\* the processes that each hold a ContainerOrchestrator on the project
Instances == {1, 2}

\* no orchestrator was constructed. Of each instance: whether it exists
\* (alive), the map of its store (credentials), whether at its construction no
\* other instance had yet saved (early), whether it saved (saved), and the keys
\* it generated and saved (generated)
NoStores ==
    [i \in Instances |->
        [alive |-> FALSE, credentials |-> EmptyMap, early |-> FALSE, saved |-> FALSE,
         generated |-> {}]]

\* EnvManager::new; calls counts the calls of process_env_vars
NoEnvManager == [env_vars |-> <<>>, secrets |-> <<>>, calls |-> 0]

\* A configuration declares up to MaxServices services; the HashMap iterates
\* them in an order of its own. Nothing is allocated, stored or running.
Init ==
    /\ \E S \in {T \in SUBSET ServicePool : Cardinality(T) <= MaxServices} :
         \E it \in Perms(S) : config = [declared |-> Declared(S), iteration |-> it]
    /\ async_ctx \in BOOLEAN
    /\ allocated_ports = NoPorts
    /\ credentials = EmptyMap
    /\ file = NoFile
    /\ containers = NoContainers
    /\ networks = <<>>
    /\ progress = [phase |-> "new", started |-> {}]
    /\ last = Op("init", <<>>, "ok")
    /\ ledger = NoLedger
    /\ inputs = [keys |-> {}, values |-> {}]
    /\ tasks = NoTasks
    /\ health = NoHealth
    /\ manager = NoManager
    /\ log_streams = NoLogStreams
    /\ env_manager = NoEnvManager
    /\ stores = NoStores


(***************************************************************************)
(* Engine operations.                                                      *)
(***************************************************************************)

\* the keys the live store can hold once the services of the pool have asked
\* for their passwords
StoreDomain ==
    (DOMAIN credentials)
    \cup {credential_key(x) : x \in {y \in ServicePool : CredentialSuffix(y) # <<>>}}

\* the write outcomes an engine operation draws from
EngineWrites ==
    WriteOutcomes(0..(2 * Cardinality({y \in ServicePool : CredentialSuffix(y) # <<>>})))

\* the services started whose {project}_{service} container still exists,
\* running or exited
StartedServices(cs, started) ==
    {x \in started :
        /\ container_name(ProjectName, x) \in DOMAIN cs
        /\ cs[container_name(ProjectName, x)].status # "created"}

\* Engine::new in a new process: ContainerOrchestrator::new loads the
\* credential file and drops the result of load; no port is allocated; the
\* HashMap of the freshly parsed configuration has an order of its own
EngineNew(it, readOk) ==
    LET l == load(EmptyMap, file, readOk)
    IN  /\ config' = [config EXCEPT !.iteration = it]
        /\ allocated_ports' = NoPorts
        /\ credentials' = l.credentials
        /\ progress' = [phase |-> "new", started |-> progress.started]
        /\ last' = [Op("new", <<>>, "ok") EXCEPT !.flag = l.ok]
        /\ UNCHANGED <<async_ctx, file, containers, networks, ledger, inputs, tasks, health, other_vars>>

\* Engine::build
Build(fault) ==
    LET n == create_network(networks, fault)
    IN  /\ networks' = n.networks
        /\ IF n.result = "ok"
           THEN /\ allocated_ports' = allocate_ports(allocated_ports, get_services(config))
                /\ progress' = [progress EXCEPT !.phase = "built"]
                /\ last' = [Op("build", <<>>, "ok") EXCEPT !.flag = allocated_ports # NoPorts]
           ELSE /\ UNCHANGED <<allocated_ports, progress>>
                /\ last' = [Op("build", <<>>, "err") EXCEPT !.fault = "network"]
        /\ UNCHANGED <<config, async_ctx, credentials, file, containers, ledger, inputs, tasks, health, other_vars>>

\* Engine::start
Start(fault_at, fault, rng, order, out) ==
    LET r == start_loop([containers |-> containers, credentials |-> credentials,
                         file |-> file],
                        get_services(config), allocated_ports, fault_at, fault,
                        async_ctx, rng, order, out)
    IN  /\ containers' = r.containers
        /\ credentials' = r.credentials
        /\ file' = r.file
        /\ progress' =
             [phase |-> IF r.result = "ok"
                        THEN (IF progress.phase = "new" THEN "new" ELSE "up")
                        ELSE (IF progress.phase = "up" THEN "built" ELSE progress.phase),
              started |-> StartedServices(r.containers, progress.started \cup r.done)]
        /\ last' = [Op("start", <<>>, r.result) EXCEPT !.generated = r.generated,
                                                      !.save_ok = r.save_ok,
                                                      !.calls = r.attempted]
        /\ UNCHANGED <<config, async_ctx, allocated_ports, networks, ledger, inputs, tasks, health, other_vars>>


\* Engine::stop: ContainerOrchestrator::stop_all over the engine's list
Stop(listed, fault, failing) ==
    LET r == stop_all(containers, listed, fault, failing)
    IN  /\ containers' = r.containers
        /\ progress' = [progress EXCEPT !.phase = IF @ = "up" THEN "built" ELSE @]
        /\ last' = [Op("stop", <<>>, r.result) EXCEPT !.flag = progress.phase = "up"]
        /\ UNCHANGED <<config, async_ctx, allocated_ports, credentials, file, networks,
                       ledger, inputs, tasks, health, other_vars>>

\* Engine::start_service
StartService(service_name, fault, rng, order, out) ==
    IF service_name \notin Range(get_services(config))
    THEN /\ last' = Op("start_service", service_name, "err")
         /\ UNCHANGED <<config, async_ctx, allocated_ports, credentials, file,
                        containers, networks, progress, ledger, inputs, tasks, health, other_vars>>
    ELSE LET r == start_service([containers |-> containers,
                                 credentials |-> credentials, file |-> file],
                                service_name,
                                service_port(allocated_ports, service_name),
                                fault, async_ctx, rng, order, out)
         IN  /\ containers' = r.containers
             /\ credentials' = r.credentials
             /\ file' = r.file
             /\ progress' =
                  [phase |-> IF r.result # "ok" /\ progress.phase = "up" THEN "built"
                             ELSE progress.phase,
                   started |-> StartedServices(r.containers,
                                               progress.started \cup r.done)]
             /\ last' = [Op("start_service", service_name, r.result)
                           EXCEPT !.generated = r.generated, !.save_ok = r.save_ok,
                                  !.fault = fault, !.flag = r.logged,
                                  !.calls = r.calls,
                                  !.target = IF r.replaced
                                             THEN container_name(ProjectName, service_name)
                                             ELSE <<>>]
             /\ UNCHANGED <<config, async_ctx, allocated_ports, networks, ledger, inputs, tasks, health, other_vars>>

\* Engine::stop_service
StopService(service_name, fault) ==
    LET r == stop_service(containers, service_name, fault)
    IN  /\ containers' = r.containers
        /\ progress' = [progress EXCEPT !.phase = IF @ = "up" THEN "built" ELSE @]
        /\ last' = [Op("stop_service", service_name, r.result)
                      EXCEPT !.flag = r.response = "No such container",
                             !.fault = IF r.response = "error" THEN "stop" ELSE "none"]
        /\ UNCHANGED <<config, async_ctx, allocated_ports, credentials, file, networks,
                       ledger, inputs, tasks, health, other_vars>>

\* What the operations that begin with get_container_id have in common: the
\* service is "not found", or the container id names what they then work on
\* (the record names none of them: they differ in what follows, not in this)
Locate(service_name, id) ==
    IF get_container_id(containers, service_name) = {}
    THEN Op("locate", service_name, "not_found")
    ELSE [Op("locate", service_name, "ok") EXCEPT !.target = id]

\* the container get_container_id can return: the first match of the list
Located(service_name) ==
    IF get_container_id(containers, service_name) = {} THEN {<<>>}
    ELSE get_container_id(containers, service_name)

\* the items of a stream the engine returns up to its first error: the
\* loops over a stream leave at the first Err item
RECURSIVE until_error(_)
until_error(stream) ==
    IF stream = <<>> \/ Head(stream) = "Err" THEN <<>>
    ELSE <<Head(stream)>> \o until_error(Tail(stream))

\* whether the stream reports an error
stream_error(stream) == \E i \in DOMAIN stream : stream[i] = "Err"

\* What follows get_container_id in get_logs, exec_command and
\* exec_command_with_output: an error of create_exec or start_exec (fault
\* "exec") is returned; the items of the stream are printed or collected up to
\* the first error, which is logged; then the operation returns Ok
after_locate(fault, stream) ==
    IF fault = "exec" THEN [result |-> "err", output |-> <<>>, fault |-> "exec"]
    ELSE [result |-> "ok", output |-> until_error(stream),
          fault |-> IF stream_error(stream) THEN "stream" ELSE "none"]

\* ContainerOrchestrator::get_logs: there is no exec, the stream is the log
get_logs(fault, stream) == after_locate("none", stream)

\* ContainerOrchestrator::exec_command
exec_command(fault, stream) == after_locate(fault, stream)

\* ContainerOrchestrator::exec_command_with_output
exec_command_with_output(fault, stream) == after_locate(fault, stream)

\* the record of an operation that begins with get_container_id and goes on
\* as r tells when the container was found
Located_then(service_name, id, fault, r) ==
    IF fault = "list" THEN [Op("locate", service_name, "err") EXCEPT !.fault = "list"]
    ELSE IF get_container_id(containers, service_name) = {} THEN Locate(service_name, id)
    ELSE [Locate(service_name, id) EXCEPT
            !.result = r.result, !.value = r.output, !.fault = r.fault]

\* Engine::get_logs
GetLogs(service_name, id, fault, stream) ==
    /\ last' = Located_then(service_name, id, fault, get_logs(fault, stream))
    /\ UNCHANGED <<config, async_ctx, allocated_ports, credentials, file, containers,
                   networks, progress, ledger, inputs, tasks, health, other_vars>>

\* Engine::exec_command
ExecCommand(service_name, id, fault, stream) ==
    /\ last' = Located_then(service_name, id, fault, exec_command(fault, stream))
    /\ UNCHANGED <<config, async_ctx, allocated_ports, credentials, file, containers,
                   networks, progress, ledger, inputs, tasks, health, other_vars>>

\* Engine::exec_command_with_output
ExecCommandWithOutput(service_name, id, fault, stream) ==
    /\ last' = Located_then(service_name, id, fault,
                            exec_command_with_output(fault, stream))
    /\ UNCHANGED <<config, async_ctx, allocated_ports, credentials, file, containers,
                   networks, progress, ledger, inputs, tasks, health, other_vars>>

\* Engine::get_container_stats
GetContainerStats(service_name, id) ==
    /\ last' = Locate(service_name, id)
    /\ UNCHANGED <<config, async_ctx, allocated_ports, credentials, file, containers,
                   networks, progress, ledger, inputs, tasks, health, other_vars>>

\* restart_service that goes on to the start call whatever the stop call
\* returned
restart_service_unchecked(cs, service_name, fault, id) ==
    IF fault = "list"
    THEN [result |-> "err", containers |-> cs, target |-> <<>>, calls |-> <<>>]
    ELSE IF get_container_id(cs, service_name) = {}
    THEN [result |-> "not_found", containers |-> cs, target |-> <<>>, calls |-> <<>>]
    ELSE LET stopped == IF fault = "stop" THEN cs ELSE docker_stop(cs, id)
         IN  IF fault = "start" \/ PortTaken(stopped, id)
             THEN [result |-> "err", containers |-> stopped, target |-> id,
                   calls |-> <<<<"stop", id>>, <<"start", id>>>>]
             ELSE [result |-> "ok", containers |-> docker_start(stopped, id),
                   target |-> id, calls |-> <<<<"stop", id>>, <<"start", id>>>>]

\* ContainerOrchestrator::restart_service: locate the container, stop it, then
\* start it; an error of either call is returned. calls are the calls made to
\* the engine after the list, in order.
restart_service(cs, service_name, fault, id) ==
    IF fault = "list"
    THEN [result |-> "err", containers |-> cs, target |-> <<>>, calls |-> <<>>]
    ELSE IF get_container_id(cs, service_name) = {}
    THEN [result |-> "not_found", containers |-> cs, target |-> <<>>, calls |-> <<>>]
    ELSE IF fault = "stop"
    THEN [result |-> "err", containers |-> cs, target |-> id,
          calls |-> <<<<"stop", id>>>>]
    ELSE LET stopped == docker_stop(cs, id)
         IN  IF fault = "start" \/ PortTaken(stopped, id)
             THEN [result |-> "err", containers |-> stopped, target |-> id,
                   calls |-> <<<<"stop", id>>, <<"start", id>>>>]
             ELSE [result |-> "ok", containers |-> docker_start(stopped, id),
                   target |-> id, calls |-> <<<<"stop", id>>, <<"start", id>>>>]

\* the container get_container_id returns when the engine lists the
\* containers in the order listed: the first whose name matches
first_located(cs, listed, service_name) ==
    LET hits == {i \in DOMAIN listed : listed[i] \in get_container_id(cs, service_name)}
    IN  IF hits = {} THEN <<>> ELSE listed[CHOOSE i \in hits : \A j \in hits : i <= j]

\* ContainerOrchestrator::restart_all, the loop: each listed container whose
\* name starts with the project name is passed, by its container name, to
\* restart_service; the first error ends the loop
RECURSIVE restart_all_loop(_, _, _, _, _, _)
restart_all_loop(cs, listed, names, fault, failing, calls) ==
    IF names = <<>> THEN [result |-> "ok", containers |-> cs, calls |-> calls]
    ELSE LET service_name == trim_start_matches(ReportedName(Head(names)), "/")
         IN  IF ~starts_with(service_name, ProjectName)
             THEN restart_all_loop(cs, listed, Tail(names), fault, failing, calls)
             ELSE LET r == restart_service(cs, service_name,
                                           IF Head(names) = failing THEN fault ELSE "none",
                                           first_located(cs, listed, service_name))
                  IN  IF r.result = "ok"
                      THEN restart_all_loop(r.containers, listed, Tail(names), fault,
                                            failing, calls \o r.calls)
                      ELSE [result |-> "err", containers |-> r.containers,
                            calls |-> calls \o r.calls]

\* ContainerOrchestrator::restart_all: listed is the list the engine returned
restart_all(cs, listed, fault, failing) ==
    IF fault = "list" THEN [result |-> "err", containers |-> cs, calls |-> <<>>]
    ELSE restart_all_loop(cs, listed, listed, fault, failing, <<>>)

\* ContainerOrchestrator::get_all_stats, the loop: the stats of each listed
\* container whose name starts with the project name, asked by its container
\* name; a container whose stats cannot be had is left out with a warning
RECURSIVE get_all_stats_loop(_, _, _, _, _)
get_all_stats_loop(cs, listed, names, failing, stats) ==
    IF names = <<>> THEN stats
    ELSE LET service_name == trim_start_matches(ReportedName(Head(names)), "/")
             id == first_located(cs, listed, service_name)
         IN  IF starts_with(service_name, ProjectName) /\ id # <<>> /\ Head(names) # failing
             THEN get_all_stats_loop(cs, listed, Tail(names), failing,
                                     Append(stats, <<"stats", id>>))
             ELSE get_all_stats_loop(cs, listed, Tail(names), failing, stats)

\* ContainerOrchestrator::get_all_stats
get_all_stats(cs, listed, fault, failing) ==
    IF fault = "list" THEN [result |-> "err", stats |-> <<>>]
    ELSE [result |-> "ok",
          stats |-> get_all_stats_loop(cs, listed, listed,
                                       IF fault = "stats" THEN failing ELSE <<>>, <<>>)]

\* Engine::restart_service
RestartService(service_name, fault, id) ==
    LET r == restart_service(containers, service_name, fault, id)
    IN  /\ containers' = r.containers
        /\ last' = [Op("restart_service", service_name, r.result) EXCEPT
                       !.target = r.target, !.fault = fault, !.calls = r.calls]
        /\ UNCHANGED <<config, async_ctx, allocated_ports, credentials, file, networks,
                       progress, ledger, inputs, tasks, health, other_vars>>

\* the complete write
OkWrite == [kind |-> "ok", nth |-> 0]

\* the random streams that make a difference: one when no service of the
\* configuration still lacks its password
Rng ==
    IF \A x \in Range(config.declared) :
          CredentialSuffix(x) = <<>> \/ credential_key(x) \in DOMAIN credentials
    THEN {CHOOSE r \in RngDraws : TRUE}
    ELSE RngDraws

(***************************************************************************)
(* Spec: the Engine over a container engine whose calls succeed whenever   *)
(* the state of the containers allows it (creating a network may fail);    *)
(* the credential file is read and written without error (SpecCreds        *)
(* explores its failures).                                                 *)
(***************************************************************************)
Next ==
    \/ \E it \in Perms(Range(config.declared)) : EngineNew(it, TRUE)
    \/ \E fault \in {"none", "network"} : Build(fault)
    \/ \E rng \in Rng, order \in Perms(StoreDomain) :
          Start(<<>>, "none", rng, order, OkWrite)
    \/ \E listed \in Perms(list_containers(containers, ProjectName)) :
          Stop(listed, "none", <<>>)
    \/ \E x \in ServicePool, rng \in Rng, order \in Perms(StoreDomain) :
            StartService(x, "none", rng, order, OkWrite)
    \/ \E x \in ServicePool : StopService(x, "none")
    \/ \E x \in ServicePool : \E id \in Located(x) : GetLogs(x, id, "none", <<>>)
    \/ \E x \in ServicePool : \E id \in Located(x) : ExecCommand(x, id, "none", <<>>)
    \/ \E x \in ServicePool : \E id \in Located(x) :
          ExecCommandWithOutput(x, id, "none", <<>>)
    \/ \E x \in ServicePool : \E id \in Located(x) : GetContainerStats(x, id)
    \/ \E x \in ServicePool : \E id \in Located(x) : RestartService(x, "none", id)

Spec == Init /\ [][Next]_vars


(***************************************************************************)
(* SpecFaults: the operations on one service at a time over a container    *)
(* engine that can report an error in any call: at most one kind of error  *)
(* in an operation.                                                        *)
(***************************************************************************)
NextFaults ==
    \/ \E fault \in {"none", "network"} : Build(fault)
    \/ \E x \in ServicePool, fault \in {"none", "pull", "remove", "create", "start"},
          rng \in Rng, order \in Perms(StoreDomain) :
            StartService(x, fault, rng, order, OkWrite)
    \/ \E x \in ServicePool, fault \in {"none", "stop"} : StopService(x, fault)
    \/ \E x \in ServicePool, fault \in {"none", "list", "stop", "start"} :
          \E id \in Located(x) : RestartService(x, fault, id)

SpecFaults == Init /\ [][NextFaults]_vars


(***************************************************************************)
(* SpecStore: the CredentialStore on its own, driven through its public    *)
(* operations with keys and generator values that exercise the file        *)
(* format, and with every outcome of the file write.                       *)
(***************************************************************************)

\* keys a caller can pass: an ordinary one, the empty one, and keys holding
\* '=', a leading '#', a leading blank
StoreKeys == {<<"K">>, <<>>, <<"K", "=", "J">>, <<"#", "K">>, <<" ", "K">>}

\* values a generator can return: ordinary, with a leading blank, with a
\* trailing blank, and with a line feed followed by what reads as an entry
GenValues == {<<"x">>, <<" ", "y">>, <<"x", " ">>, <<"x", "\n", "K", "=", "y">>}

\* most keys one run of the store uses
MaxCreds == 2

\* a key the file format carries unchanged: no '=', no line feed, no leading
\* whitespace, no leading '#'
PlainKey(k) ==
    /\ \A i \in 1..Len(k) : k[i] \notin {"=", "\n"}
    /\ k # <<>> => Head(k) \notin Whitespace \cup {"#"}

\* a value the file format carries unchanged: no line feed, no trailing
\* whitespace
PlainValue(v) ==
    /\ \A i \in 1..Len(v) : v[i] # "\n"
    /\ v # <<>> => v[Len(v)] \notin Whitespace

\* a map of plain keys and plain values
Plain(creds) == \A k \in DOMAIN creds : PlainKey(k) /\ PlainValue(creds[k])

\* the pairs of P the map holds
Held(P, creds) == {q \in P : q[1] \in DOMAIN creds /\ creds[q[1]] = q[2]}

InitStore ==
    /\ config = [declared |-> <<>>, iteration |-> <<>>]
    /\ async_ctx = FALSE
    /\ allocated_ports = NoPorts
    /\ credentials = EmptyMap
    /\ file = NoFile
    /\ containers = NoContainers
    /\ networks = <<>>
    /\ progress = [phase |-> "new", started |-> {}]
    /\ last = Op("init", <<>>, "ok")
    /\ ledger = NoLedger
    /\ \E K \in {T \in SUBSET StoreKeys : Cardinality(T) = MaxCreds},
          V \in {T \in SUBSET GenValues : Cardinality(T) = 2} :
         inputs = [keys |-> K, values |-> V]
    /\ tasks = NoTasks
    /\ health = NoHealth
    /\ manager = NoManager
    /\ log_streams = NoLogStreams
    /\ env_manager = NoEnvManager
    /\ stores = NoStores

\* CredentialStore::new: an empty store (of a new process, or a second store)
New ==
    /\ credentials' = EmptyMap
    /\ ledger' = [ledger EXCEPT !.generated = {}, !.known = {}]
    /\ last' = Op("store_new", <<>>, "ok")
    /\ UNCHANGED <<engine_vars, file, inputs, tasks, health, other_vars>>

\* CredentialStore::load, called as ContainerOrchestrator::new calls it: once,
\* on the store just constructed
Load(readOk) ==
    /\ last.op = "store_new"
    /\ LET l == load(credentials, file, readOk)
       IN  /\ credentials' = l.credentials
           /\ ledger' = [ledger EXCEPT
                           !.known = IF l.ok /\ file.exists /\ ledger.plain
                                     THEN ledger.disk ELSE @]
           /\ last' = [Op("load", <<>>, IF l.ok THEN "ok" ELSE "err") EXCEPT
                           !.flag = file.exists]
    /\ UNCHANGED <<engine_vars, file, inputs, tasks, health, other_vars>>

\* CredentialStore::get_or_generate(key, generator), gen being the value the
\* generator returns when it is called
GetOrGenerate(key, gen) ==
    LET g == get_or_generate(credentials, key, gen)
    IN  /\ credentials' = g.credentials
        /\ ledger' = [ledger EXCEPT
                        !.generated = IF g.generated THEN @ \cup {<<key, gen>>} ELSE @]
        /\ last' = [Op("get_or_generate", key, "ok") EXCEPT
                        !.value = g.value, !.generated = g.generated,
                        !.flag = key \in {q[1] : q \in ledger.known}]
        /\ UNCHANGED <<engine_vars, file, inputs, tasks, health, other_vars>>

\* CredentialStore::save. A complete write puts every generated pair of the
\* map on disk; a write cut short leaves none that can be relied on.
Save(order, out) ==
    LET w == save(credentials, file, order, out)
        known == ledger.known \cup Held(ledger.generated, credentials)
    IN  /\ file' = w.file
        /\ ledger' =
             IF out.kind = "ok"
             THEN [ledger EXCEPT !.known = known,
                                 !.disk = Held(ledger.disk \cup known, credentials),
                                 !.plain = Plain(credentials),
                                 !.saved = credentials, !.whole = TRUE]
             ELSE IF out.kind = "refused" THEN ledger
             ELSE [ledger EXCEPT !.disk = {}, !.saved = EmptyMap, !.whole = FALSE]
        /\ last' = Op("save", <<>>, IF w.ok THEN "ok" ELSE "err")
        /\ UNCHANGED <<engine_vars, credentials, inputs, tasks, health, other_vars>>

\* the write completes, is refused, or fails right after the file was
\* truncated (SpecCreds explores every point a write can stop at)
NextStore ==
    \/ New
    \/ \E readOk \in BOOLEAN : Load(readOk)
    \/ \E key \in inputs.keys, gen \in inputs.values : GetOrGenerate(key, gen)
    \/ \E order \in Perms(DOMAIN credentials), out \in WriteOutcomes({0}) :
            Save(order, out)

SpecStore == InitStore /\ [][NextStore]_vars


(***************************************************************************)
(* SpecCreds: the Engine starting services while the credential file is    *)
(* read and written with every outcome; the container engine reports no    *)
(* fault of its own.                                                       *)
(***************************************************************************)
NextCreds ==
    \/ \E it \in Perms(Range(config.declared)), readOk \in BOOLEAN : EngineNew(it, readOk)
    \/ \E rng \in Rng, order \in Perms(StoreDomain), out \in EngineWrites :
          Start(<<>>, "none", rng, order, out)
    \/ \E x \in ServicePool, rng \in Rng, order \in Perms(StoreDomain),
          out \in EngineWrites : StartService(x, "none", rng, order, out)

SpecCreds == Init /\ [][NextCreds]_vars

(***************************************************************************)
(* SpecLock: threads asking one ContainerOrchestrator for the environment  *)
(* of a service at the same time. The store sits behind                    *)
(* Arc<tokio::sync::Mutex<CredentialStore>>; get_service_env_vars takes    *)
(* the mutex inside Handle::block_on and holds the guard until the block   *)
(* ends. What runs under the guard is modelled one statement at a step:    *)
(* the lookup, the generator, the insertion, the save.                     *)
(***************************************************************************)

\* threads asking at the same time
NumTasks == 2

Tasks == 1..NumTasks

\* the services whose environment holds a generated password
CredServices == {mysql, postgres}

\* a thread before its call
NewTask(service, in_async) ==
    [pc |-> "call", service |-> service, in_async |-> in_async, gen |-> <<>>,
     value |-> <<>>, generated |-> FALSE, waited |-> FALSE, calls |-> 0]

\* most calls of one thread
MaxCalls == 2

\* the statements a thread runs holding the guard
Section == {"locked", "generating", "inserting", "saving", "unlock"}

\* the mutex of any other thread's guard is not taken
lock_free_always(tk) == TRUE

\* tokio::sync::Mutex::lock: granted when no guard is alive
lock_free(tk) == tk.lock = 0

\* one store, nothing saved, NumTasks threads about to call
InitLock ==
    /\ \E S \in {T \in SUBSET ServicePool : Cardinality(T) <= 1} :
         config = [declared |-> Declared(S), iteration |-> Declared(S)]
    /\ async_ctx = FALSE
    /\ allocated_ports = NoPorts
    /\ credentials = EmptyMap
    /\ file = NoFile
    /\ containers = NoContainers
    /\ networks = <<>>
    /\ progress = [phase |-> "new", started |-> {}]
    /\ last = Op("init", <<>>, "ok")
    /\ ledger = NoLedger
    /\ inputs = [keys |-> {}, values |-> {}]
    /\ \E f \in [Tasks -> CredServices \X BOOLEAN] :
         tasks = [lock |-> 0, of |-> [t \in Tasks |-> NewTask(f[t][1], f[t][2])]]
    /\ health = NoHealth
    /\ manager = NoManager
    /\ log_streams = NoLogStreams
    /\ env_manager = NoEnvManager
    /\ stores = NoStores

\* the thread t moves on, as the record nt
TaskStep(t, nt, lock) == tasks' = [lock |-> lock, of |-> [tasks.of EXCEPT ![t] = nt]]

\* get_service_env_vars up to the wait for the mutex: Handle::block_on
\* panics in a thread that is driving the runtime's tasks
BlockOn(t) ==
    LET me == tasks.of[t]
    IN  /\ me.pc = "call"
        /\ TaskStep(t, [me EXCEPT !.pc = IF me.in_async THEN "panicked" ELSE "waiting",
                                  !.waited = ~me.in_async /\ tasks.lock # 0,
                                  !.calls = @ + 1],
                    tasks.lock)
        /\ UNCHANGED <<engine_vars, credentials, file, last, ledger, inputs, health, other_vars>>

\* credential_store.lock().await
Acquire(t) ==
    LET me == tasks.of[t]
    IN  /\ me.pc = "waiting"
        /\ lock_free(tasks)
        /\ TaskStep(t, [me EXCEPT !.pc = "locked"], t)
        /\ UNCHANGED <<engine_vars, credentials, file, last, ledger, inputs, health, other_vars>>

\* get_or_generate, the lookup: the stored value when the key is present
Lookup(t) ==
    LET me == tasks.of[t]
        key == credential_key(me.service)
    IN  /\ me.pc = "locked"
        /\ TaskStep(t, IF key \in DOMAIN credentials
                       THEN [me EXCEPT !.pc = "saving", !.value = credentials[key],
                                       !.generated = FALSE]
                       ELSE [me EXCEPT !.pc = "generating"],
                    tasks.lock)
        /\ UNCHANGED <<engine_vars, credentials, file, last, ledger, inputs, health, other_vars>>

\* get_or_generate, the generator: SecretGenerator::generate_db_password
Generate(t, rng) ==
    LET me == tasks.of[t]
    IN  /\ me.pc = "generating"
        /\ TaskStep(t, [me EXCEPT !.pc = "inserting", !.gen = generate_db_password(rng)],
                    tasks.lock)
        /\ UNCHANGED <<engine_vars, credentials, file, last, ledger, inputs, health, other_vars>>

\* get_or_generate, the insertion of the generated value, which is returned
Insert(t) ==
    LET me == tasks.of[t]
    IN  /\ me.pc = "inserting"
        /\ credentials' = MapInsert(credentials, credential_key(me.service), me.gen)
        /\ TaskStep(t, [me EXCEPT !.pc = "saving", !.value = me.gen, !.generated = TRUE],
                    tasks.lock)
        /\ UNCHANGED <<engine_vars, file, last, ledger, inputs, health, other_vars>>

\* let _ = store.save()
SaveUnderGuard(t, order, out) ==
    LET me == tasks.of[t]
    IN  /\ me.pc = "saving"
        /\ file' = save(credentials, file, order, out).file
        /\ TaskStep(t, [me EXCEPT !.pc = "unlock"], tasks.lock)
        /\ UNCHANGED <<engine_vars, credentials, last, ledger, inputs, health, other_vars>>

\* the end of the async block drops the guard; the environment is returned
Release(t) ==
    LET me == tasks.of[t]
    IN  /\ me.pc = "unlock"
        /\ TaskStep(t, [me EXCEPT !.pc = "done"], IF tasks.lock = t THEN 0 ELSE tasks.lock)
        /\ UNCHANGED <<engine_vars, credentials, file, last, ledger, inputs, health, other_vars>>

\* the thread asks again, for the same service or another
CallAgain(t, service) ==
    LET me == tasks.of[t]
    IN  /\ me.pc = "done"
        /\ me.calls < MaxCalls
        /\ TaskStep(t, [NewTask(service, FALSE) EXCEPT !.calls = me.calls], tasks.lock)
        /\ UNCHANGED <<engine_vars, credentials, file, last, ledger, inputs, health, other_vars>>

NextLock ==
    \/ \E t \in Tasks : BlockOn(t)
    \/ \E t \in Tasks : Acquire(t)
    \/ \E t \in Tasks : Lookup(t)
    \/ \E t \in Tasks, rng \in RngDraws : Generate(t, rng)
    \/ \E t \in Tasks : Insert(t)
    \/ \E t \in Tasks, order \in Perms(DOMAIN credentials),
          out \in {[kind |-> "ok", nth |-> 0], [kind |-> "refused", nth |-> 0]} :
            SaveUnderGuard(t, order, out)
    \/ \E t \in Tasks : Release(t)
    \/ \E t \in Tasks, service \in CredServices : CallAgain(t, service)

SpecLock == InitLock /\ [][NextLock]_vars

(***************************************************************************)
(* The health checker on its own (health/mod.rs): single checks, and the   *)
(* polling loop of wait_for_healthy under a clock that counts seconds from *)
(* the start of the wait.                                                  *)
(***************************************************************************)

\* longest timeout handed to wait_for_healthy, in seconds
MaxTimeout == 3

\* longest time one check_container call takes, in seconds
MaxCheckTime == 1

HealthServices == {mysql, web}

Styles == {"upper", "camel"}

\* what inspect_container can answer
Inspections ==
    {[ok |-> FALSE, state |-> "unknown", native |-> "none"]}
        \cup [ok : {TRUE}, state : {"running", "exited", "unknown"},
              native : {"none", "healthy", "unhealthy", "starting", "no_check"}]

\* what running the probe command can do
Probes ==
    {[started |-> FALSE, exit |-> 1, marker |-> FALSE]}
        \cup [started : {TRUE}, exit : {0, 1}, marker : BOOLEAN]

InitHealth ==
    /\ config = [declared |-> <<>>, iteration |-> <<>>]
    /\ async_ctx = FALSE
    /\ allocated_ports = NoPorts
    /\ credentials = EmptyMap
    /\ file = NoFile
    /\ containers = NoContainers
    /\ networks = <<>>
    /\ progress = [phase |-> "new", started |-> {}]
    /\ last = Op("init", <<>>, "ok")
    /\ ledger = NoLedger
    /\ inputs = [keys |-> {}, values |-> {}]
    /\ tasks = NoTasks
    /\ \E style \in Styles : health = [NoHealth EXCEPT !.style = style]
    /\ manager = NoManager
    /\ log_streams = NoLogStreams
    /\ env_manager = NoEnvManager
    /\ stores = NoStores

health_frame ==
    UNCHANGED <<engine_vars, credentials, file, last, ledger, inputs, tasks, other_vars>>

\* one call of check_container outside a wait (zero health)
CheckContainer(service_name, inspect, probe) ==
    /\ health.pc \in {"idle", "healthy", "timed_out", "failed"}
    /\ health' = [health EXCEPT
                    !.pc = "idle", !.service = service_name, !.inspect = inspect,
                    !.probe = probe,
                    !.status = check_container(inspect, service_name, probe, health.style),
                    !.timeout = 0, !.now = 0, !.polls = 0, !.late = FALSE]
    /\ health_frame

\* wait_for_healthy up to its loop: start = Instant::now()
WaitStart(service_name, timeout) ==
    /\ health.pc \in {"idle", "healthy", "timed_out", "failed"}
    /\ health' = [NoHealth EXCEPT
                    !.pc = "checking", !.style = health.style,
                    !.service = service_name, !.timeout = timeout]
    /\ health_frame

\* one turn of the loop up to the sleep: the check, which takes d seconds
\* and whose error `?` returns, the return of a healthy status, the deadline
\* test
WaitCheck(inspect, probe, d) ==
    LET status == check_container(inspect, health.service, probe, health.style)
        elapsed == health.now + d
    IN  /\ health.pc = "checking"
        /\ health.now <= MaxTimeout + PollInterval
        /\ health' = [health EXCEPT
                        !.inspect = inspect, !.probe = probe, !.status = status,
                        !.now = elapsed, !.polls = @ + 1,
                        !.late = ~status.is_healthy /\ elapsed > health.timeout,
                        !.pc = wait_turn(status, elapsed, health.timeout)]
        /\ health_frame

\* tokio::time::sleep(Duration::from_secs(2)), then the loop turns
WaitSleep ==
    /\ health.pc = "sleeping"
    /\ health' = [health EXCEPT !.pc = "checking", !.now = @ + PollInterval]
    /\ health_frame

\* the loop of wait_for_healthy: the engine answers every inspect and exec,
\* the timer of every sleep fires
WaitLoop ==
    \/ \E inspect \in Inspections, probe \in Probes, d \in 0..MaxCheckTime :
          WaitCheck(inspect, probe, d)
    \/ WaitSleep

NextHealth ==
    \/ \E x \in HealthServices, inspect \in Inspections, probe \in Probes :
          CheckContainer(x, inspect, probe)
    \/ \E x \in HealthServices, timeout \in 0..MaxTimeout : WaitStart(x, timeout)
    \/ \E inspect \in Inspections, probe \in Probes, d \in 0..MaxCheckTime :
          WaitCheck(inspect, probe, d)
    \/ WaitSleep

SpecHealth == InitHealth /\ [][NextHealth]_vars /\ WF_vars(WaitLoop)

(***************************************************************************)
(* SpecRuntime: one ContainerRuntimeManager, detections whose probes       *)
(* answer in any way with at most MaxInstalled runtimes installed, and     *)
(* changes of the preferred runtime.                                       *)
(***************************************************************************)

\* most runtimes installed on the machine at one detection
MaxInstalled == 2

\* most detections one manager goes through
MaxDetections == 2

Runtimes == Range(all_runtimes)

\* the answers of the probes of one detection: a runtime runs only if it is
\* installed
ProbeAnswers ==
    {pr \in [installed : {I \in SUBSET Runtimes : Cardinality(I) <= MaxInstalled},
             running : {R \in SUBSET Runtimes : Cardinality(R) <= MaxInstalled}] :
        pr.running \subseteq pr.installed}

InitRuntime ==
    /\ config = [declared |-> <<>>, iteration |-> <<>>]
    /\ async_ctx = FALSE
    /\ allocated_ports = NoPorts
    /\ credentials = EmptyMap
    /\ file = NoFile
    /\ containers = NoContainers
    /\ networks = <<>>
    /\ progress = [phase |-> "new", started |-> {}]
    /\ last = Op("init", <<>>, "ok")
    /\ ledger = NoLedger
    /\ inputs = [keys |-> {}, values |-> {}]
    /\ tasks = NoTasks
    /\ health = NoHealth
    /\ manager = NoManager
    /\ log_streams = NoLogStreams
    /\ env_manager = NoEnvManager
    /\ stores = NoStores

manager_frame ==
    UNCHANGED <<engine_vars, credentials, file, last, ledger, inputs, tasks, health,
                log_streams, env_manager, stores>>

\* ContainerRuntimeManager::new
NewManager ==
    /\ manager # NoManager
    /\ manager' = NoManager
    /\ manager_frame

\* ContainerRuntimeManager::detect_runtimes
DetectRuntimes(installed, running) ==
    LET r == detect_runtimes(manager, installed, running)
    IN  /\ manager.detections < MaxDetections
        /\ manager' = [r.manager EXCEPT
                         !.op = "detect_runtimes", !.arg = "none", !.result = r.result,
                         !.installed = installed, !.running = running,
                         !.detections = @ + 1]
        /\ manager_frame

\* ContainerRuntimeManager::get_preferred_runtime
GetPreferredRuntime ==
    LET r == get_preferred_runtime(manager)
    IN  /\ manager' = [manager EXCEPT
                         !.op = "get_preferred_runtime", !.arg = r.runtime,
                         !.result = r.result]
        /\ manager_frame

\* ContainerRuntimeManager::set_preferred_runtime
SetPreferredRuntime(runtime) ==
    LET r == set_preferred_runtime(manager, runtime)
    IN  /\ manager' = [r.manager EXCEPT
                         !.op = "set_preferred_runtime", !.arg = runtime,
                         !.result = r.result]
        /\ manager_frame

NextRuntime ==
    \/ NewManager
    \/ \E pr \in ProbeAnswers : DetectRuntimes(pr.installed, pr.running)
    \/ GetPreferredRuntime
    \/ \E runtime \in Runtimes : SetPreferredRuntime(runtime)

SpecRuntime == InitRuntime /\ [][NextRuntime]_vars

(***************************************************************************)
(* SpecProjects: the operations of project "z" that work on the engine's   *)
(* list, on a container engine that other projects use too and whose       *)
(* calls and streams can report an error.                                  *)
(***************************************************************************)

\* projects that share the container engine: one whose name begins with this
\* project's name, one whose name contains it
OtherProjects == {<<"z", "z">>, <<"x", "z">>}

\* the containers of this project
OwnNames == {ProjectName \o <<"_">> \o x : x \in {web}}

\* the containers of the other projects
OtherNames == {p \o <<"_">> \o web : p \in OtherProjects}

\* the container named n as its project created and started or stopped it:
\* the projects publish different host ports
ContainerOf(n, status) ==
    [status |-> status,
     host_port |-> PortBase + Len(n) + (IF contains(n, <<"x">>) THEN 1 ELSE 0),
     password |-> <<>>]

InitProjects ==
    /\ config = [declared |-> <<web>>, iteration |-> <<web>>]
    /\ async_ctx = FALSE
    /\ allocated_ports = NoPorts
    /\ credentials = EmptyMap
    /\ file = NoFile
    /\ \E N \in SUBSET (OwnNames \cup OtherNames) :
         \E st \in [N -> {"running", "exited"}] :
            containers = [n \in N |-> ContainerOf(n, st[n])]
    /\ networks = <<>>
    /\ progress = [phase |-> "new", started |-> {}]
    /\ last = Op("init", <<>>, "ok")
    /\ ledger = NoLedger
    /\ inputs = [keys |-> {}, values |-> {}]
    /\ tasks = NoTasks
    /\ health = NoHealth
    /\ manager = NoManager
    /\ log_streams = NoLogStreams
    /\ env_manager = NoEnvManager
    /\ stores = NoStores

projects_frame ==
    UNCHANGED <<config, async_ctx, allocated_ports, credentials, file, networks,
                progress, ledger, inputs, tasks, health, other_vars>>

\* the names the engine's list can hold, in an order of its choice
Listings == Perms(list_containers(containers, ProjectName))

\* ContainerOrchestrator::list_containers
ListContainers(listed, fault) ==
    /\ last' = [Op("list_containers", <<>>, IF fault = "list" THEN "err" ELSE "ok") EXCEPT
                  !.fault = fault,
                  !.calls = IF fault = "list" THEN <<>>
                            ELSE [i \in DOMAIN listed |-> <<"listed", listed[i]>>]]
    /\ UNCHANGED containers
    /\ projects_frame

\* Engine::restart_all
RestartAll(listed, fault, failing) ==
    LET r == restart_all(containers, listed, fault, failing)
    IN  /\ containers' = r.containers
        /\ last' = [Op("restart_all", <<>>, r.result) EXCEPT
                      !.fault = fault, !.calls = r.calls]
        /\ projects_frame

\* ContainerOrchestrator::get_all_stats
GetAllStats(listed, fault, failing) ==
    LET r == get_all_stats(containers, listed, fault, failing)
    IN  /\ last' = [Op("get_all_stats", <<>>, r.result) EXCEPT
                      !.fault = fault, !.calls = r.stats]
        /\ UNCHANGED containers
        /\ projects_frame

\* ContainerOrchestrator::stop_all
StopAll(listed, fault, failing) ==
    LET r == stop_all(containers, listed, fault, failing)
    IN  /\ containers' = r.containers
        /\ last' = [Op("stop_all", <<>>, r.result) EXCEPT !.fault = fault]
        /\ projects_frame

\* another project, or the user, starts or stops a container
Outside(n) ==
    /\ n \in DOMAIN containers
    /\ containers' = [containers EXCEPT
                        ![n].status = IF @ = "running" THEN "exited" ELSE "running"]
    /\ last' = Op("outside", <<>>, "ok")
    /\ projects_frame

\* how the engine can fail in an operation over the list: not at all, in the
\* list call, or in a call of one of the kinds on one listed container
Failures(listed, kinds) ==
    {[fault |-> "none", failing |-> <<>>], [fault |-> "list", failing |-> <<>>]}
        \cup [fault : kinds, failing : Range(listed)]

\* most items of a stream of the engine
MaxChunks == 2

\* the streams of the engine: text items and error items
Streams == UNION {[1..n -> {"a", "Err"}] : n \in 0..MaxChunks}

NextProjects ==
    \/ \E x \in {web, z_web}, fault \in {"none", "list"}, stream \in Streams :
          \E id \in Located(x) : GetLogs(x, id, fault, stream)
    \/ \E x \in {web, z_web}, fault \in {"none", "list", "exec"}, stream \in Streams :
          \E id \in Located(x) : ExecCommand(x, id, fault, stream)
    \/ \E x \in {web, z_web}, fault \in {"none", "list", "exec"}, stream \in Streams :
          \E id \in Located(x) : ExecCommandWithOutput(x, id, fault, stream)
    \/ \E listed \in Listings, fault \in {"none", "list"} : ListContainers(listed, fault)
    \/ \E listed \in Listings : \E f \in Failures(listed, {"stop", "start"}) :
          RestartAll(listed, f.fault, f.failing)
    \/ \E listed \in Listings : \E f \in Failures(listed, {"stats"}) :
          GetAllStats(listed, f.fault, f.failing)
    \/ \E listed \in Listings : \E f \in Failures(listed, {"stop"}) :
          StopAll(listed, f.fault, f.failing)
    \/ \E n \in OwnNames \cup OtherNames : Outside(n)

SpecProjects == InitProjects /\ [][NextProjects]_vars

(***************************************************************************)
(* SpecLogs: the commands start_log_stream and stop_log_stream of the      *)
(* desktop shell, called in any order and, start_log_stream being          *)
(* suspended while the engine is built and the stream opened, overlapping. *)
(***************************************************************************)

\* most stream tasks spawned in one run
MaxStreams == 3

\* most start_log_stream calls under way at once
MaxPending == 2

LogServices == {mysql, web}

InitLogs ==
    /\ config = [declared |-> <<>>, iteration |-> <<>>]
    /\ async_ctx = FALSE
    /\ allocated_ports = NoPorts
    /\ credentials = EmptyMap
    /\ file = NoFile
    /\ containers = NoContainers
    /\ networks = <<>>
    /\ progress = [phase |-> "new", started |-> {}]
    /\ last = Op("init", <<>>, "ok")
    /\ ledger = NoLedger
    /\ inputs = [keys |-> {}, values |-> {}]
    /\ tasks = NoTasks
    /\ health = NoHealth
    /\ manager = NoManager
    /\ log_streams = NoLogStreams
    /\ env_manager = NoEnvManager
    /\ stores = NoStores

logs_frame ==
    UNCHANGED <<engine_vars, credentials, file, ledger, inputs, tasks, health, manager,
                env_manager, stores>>

\* q without its i-th element
RemoveAt(q, i) == SubSeq(q, 1, i - 1) \o SubSeq(q, i + 1, Len(q))

\* start_log_stream up to get_engine: the stream registered for the service
\* is stopped
StartLogStream(service_name) ==
    /\ Len(log_streams.pending) < MaxPending
    /\ Len(log_streams.tasks) + Len(log_streams.pending) < MaxStreams
    /\ log_streams' = [remove_and_abort(log_streams, service_name) EXCEPT
                         !.pending = Append(@, service_name)]
    /\ last' = Op("start_log_stream", service_name, "pending")
    /\ logs_frame

\* start_log_stream from get_engine on: the engine or the stream cannot be
\* had and the command fails, or the task is spawned and registered
StartLogStreamSpawn(i, opened) ==
    LET service_name == log_streams.pending[i]
        rest == [log_streams EXCEPT !.pending = RemoveAt(@, i)]
    IN  /\ i \in DOMAIN log_streams.pending
        /\ log_streams' = IF opened THEN spawn_and_insert(rest, service_name) ELSE rest
        /\ last' = Op("start_log_stream", service_name, IF opened THEN "ok" ELSE "err")
        /\ logs_frame

\* stop_log_stream
StopLogStream(service_name) ==
    /\ log_streams' = stop_log_stream(log_streams, service_name)
    /\ last' = [Op("stop_log_stream", service_name, "ok") EXCEPT
                  !.flag = service_name \in DOMAIN log_streams.handles]
    /\ logs_frame

\* a stream task ends by itself: the log stream ended or reported an error
StreamEnds(t) ==
    /\ t \in DOMAIN log_streams.tasks
    /\ log_streams.tasks[t].state = "running"
    /\ log_streams' = [log_streams EXCEPT !.tasks[t].state = "finished"]
    /\ last' = Op("stream_ends", log_streams.tasks[t].service, "ok")
    /\ logs_frame

NextLogs ==
    \/ \E x \in LogServices : StartLogStream(x)
    \/ \E i \in 1..MaxPending, opened \in BOOLEAN : StartLogStreamSpawn(i, opened)
    \/ \E x \in LogServices : StopLogStream(x)
    \/ \E t \in 1..MaxStreams : StreamEnds(t)

SpecLogs == InitLogs /\ [][NextLogs]_vars

(***************************************************************************)
(* SpecSecrets: the SecretGenerator, asked for secrets of every kind with  *)
(* a random generator that answers in any of the streams of the model.     *)
(***************************************************************************)

\* longest secret asked of generate_alphanumeric by its length
MaxLength == 3

\* largest step of a random stream
MaxStep == 1

SecretStreams ==
    {RandomStream(first, step) : first \in 0..(Len(CHARSET) - 1), step \in 0..MaxStep}

InitSecrets ==
    /\ config = [declared |-> <<>>, iteration |-> <<>>]
    /\ async_ctx = FALSE
    /\ allocated_ports = NoPorts
    /\ credentials = EmptyMap
    /\ file = NoFile
    /\ containers = NoContainers
    /\ networks = <<>>
    /\ progress = [phase |-> "new", started |-> {}]
    /\ last = Op("init", <<>>, "ok")
    /\ ledger = NoLedger
    /\ inputs = [keys |-> {}, values |-> {}]
    /\ tasks = NoTasks
    /\ health = NoHealth
    /\ manager = NoManager
    /\ log_streams = NoLogStreams
    /\ env_manager = NoEnvManager
    /\ stores = NoStores

\* a call of the SecretGenerator returns value
Generated(op, length, value) ==
    /\ last' = [Op(op, <<>>, "ok") EXCEPT !.value = value, !.length = length,
                                          !.generated = TRUE]
    /\ UNCHANGED <<engine_vars, credentials, file, ledger, inputs, tasks, health,
                   other_vars>>

\* SecretGenerator::generate_alphanumeric
GenerateAlphanumeric(length, rng) ==
    Generated("generate_alphanumeric", length, generate_alphanumeric(length, rng))

\* SecretGenerator::generate_jwt_secret
GenerateJwtSecret(rng) == Generated("generate_jwt_secret", 0, generate_jwt_secret(rng))

\* SecretGenerator::generate_api_key
GenerateApiKey(rng) == Generated("generate_api_key", 0, generate_api_key(rng))

\* SecretGenerator::generate_db_password
GenerateDbPassword(rng) == Generated("generate_db_password", 0, generate_db_password(rng))

\* SecretGenerator::generate_uuid
GenerateUuid(rng) == Generated("generate_uuid", 0, generate_uuid(rng))

NextSecrets ==
    \/ \E length \in 0..MaxLength, rng \in SecretStreams : GenerateAlphanumeric(length, rng)
    \/ \E rng \in SecretStreams : GenerateJwtSecret(rng)
    \/ \E rng \in SecretStreams : GenerateApiKey(rng)
    \/ \E rng \in SecretStreams : GenerateDbPassword(rng)
    \/ \E rng \in SecretStreams : GenerateUuid(rng)

SpecSecrets == InitSecrets /\ [][NextSecrets]_vars

(***************************************************************************)
(* SpecEnv: one EnvManager, handed one configuration after another.        *)
(***************************************************************************)

\* most entries of one env_config
MaxEnvEntries == 2

\* most calls of process_env_vars on one EnvManager
MaxProcessCalls == 2

\* the keys of the configurations: one for each kind of generated value
EnvKeys == {<<"J", "W", "T">>, <<"P", "A", "S", "S">>, <<"I", "D">>, <<"X">>}

\* the values of the configurations
EnvValues == {AutoGenerate, <<"v">>, <<"w">>}

EnvConfigs ==
    UNION {[K -> EnvValues] : K \in {T \in SUBSET EnvKeys : Cardinality(T) <= MaxEnvEntries}}

EnvStreams == {RandomStream(first, 1) : first \in 0..(NumRand - 1)}

InitEnv ==
    /\ config = [declared |-> <<>>, iteration |-> <<>>]
    /\ async_ctx = FALSE
    /\ allocated_ports = NoPorts
    /\ credentials = EmptyMap
    /\ file = NoFile
    /\ containers = NoContainers
    /\ networks = <<>>
    /\ progress = [phase |-> "new", started |-> {}]
    /\ last = Op("init", <<>>, "ok")
    /\ ledger = NoLedger
    /\ inputs = [keys |-> {}, values |-> {}]
    /\ tasks = NoTasks
    /\ health = NoHealth
    /\ manager = NoManager
    /\ log_streams = NoLogStreams
    /\ env_manager = NoEnvManager
    /\ stores = NoStores

\* EnvManager::new
NewEnvManager ==
    /\ env_manager # NoEnvManager
    /\ env_manager' = NoEnvManager
    /\ UNCHANGED <<engine_vars, credentials, file, last, ledger, inputs, tasks, health,
                   manager, log_streams, stores>>

\* EnvManager::process_env_vars
ProcessEnvVars(env_config, order, rng) ==
    /\ env_manager.calls < MaxProcessCalls
    /\ env_manager' = [process_env_vars(env_manager, env_config, order, rng) EXCEPT
                         !.calls = @ + 1]
    /\ UNCHANGED <<engine_vars, credentials, file, last, ledger, inputs, tasks, health,
                   manager, log_streams, stores>>

NextEnv ==
    \/ NewEnvManager
    \/ \E env_config \in EnvConfigs, rng \in EnvStreams :
          \E order \in Perms(DOMAIN env_config) : ProcessEnvVars(env_config, order, rng)

SpecEnv == InitEnv /\ [][NextEnv]_vars

(***************************************************************************)
(* SpecStart: Engine::start over a container engine that can fail the pull, *)
(* the creation or the start of one service's container.                   *)
(***************************************************************************)

NextStart ==
    \/ \E fault \in {"none", "network"} : Build(fault)
    \/ \E at \in ServicePool, fault \in {"none", "pull", "create", "start"},
          rng \in Rng, order \in Perms(StoreDomain) :
            Start(at, fault, rng, order, OkWrite)
    \/ \E listed \in Perms(list_containers(containers, ProjectName)) :
          Stop(listed, "none", <<>>)
    \/ \E x \in ServicePool : StopService(x, "none")

SpecStart == Init /\ [][NextStart]_vars

(***************************************************************************)
(* SpecInstances: two processes on one project directory, each with its    *)
(* own ContainerOrchestrator and so its own CredentialStore, over the one  *)
(* credential file. Every write of the file is complete.                   *)
(***************************************************************************)

InitInstances ==
    /\ config = [declared |-> <<>>, iteration |-> <<>>]
    /\ async_ctx = FALSE
    /\ allocated_ports = NoPorts
    /\ credentials = EmptyMap
    /\ file = NoFile
    /\ containers = NoContainers
    /\ networks = <<>>
    /\ progress = [phase |-> "new", started |-> {}]
    /\ last = Op("init", <<>>, "ok")
    /\ ledger = NoLedger
    /\ inputs = [keys |-> {}, values |-> {}]
    /\ tasks = NoTasks
    /\ health = NoHealth
    /\ manager = NoManager
    /\ log_streams = NoLogStreams
    /\ env_manager = NoEnvManager
    /\ stores = NoStores

\* ContainerOrchestrator::new in process i: a new store, loaded from the file
\* with the result of load dropped
OrchestratorNew(i, readOk) ==
    /\ stores' = [stores EXCEPT ![i] =
                     [alive |-> TRUE,
                      credentials |-> load(EmptyMap, file, readOk).credentials,
                      early |-> \A j \in Instances \ {i} : ~stores[j].saved,
                      saved |-> FALSE, generated |-> {}]]
    /\ UNCHANGED <<engine_vars, credentials, file, last, ledger, inputs, tasks, health,
                   manager, log_streams, env_manager>>

\* get_service_env_vars of the orchestrator of process i, as start_service
\* calls it: the password looked up or generated in its own store, the store
\* saved
InstanceEnv(i, service, rng, order) ==
    LET r == get_service_env_vars(stores[i].credentials, file, service, rng, order,
                                  OkWrite)
    IN  /\ stores[i].alive
        /\ stores' = [stores EXCEPT
                         ![i].credentials = r.credentials,
                         ![i].saved = @ \/ r.saved,
                         ![i].generated = IF r.generated
                                          THEN @ \cup {credential_key(service)} ELSE @]
        /\ file' = r.file
        /\ UNCHANGED <<engine_vars, credentials, last, ledger, inputs, tasks, health,
                       manager, log_streams, env_manager>>

NextInstances ==
    \/ \E i \in Instances, readOk \in BOOLEAN : OrchestratorNew(i, readOk)
    \/ \E i \in Instances, x \in CredServices \cup {web}, rng \in RngDraws,
          order \in Perms({credential_key(y) : y \in CredServices}) :
            InstanceEnv(i, x, rng, order)

SpecInstances == InitInstances /\ [][NextInstances]_vars

(***************************************************************************)
(* Properties.                                                             *)
(***************************************************************************)

\* the map a fresh store reads from the file
Persisted(f) == IF f.exists THEN load_lines(EmptyMap, lines(f.content)) ELSE EmptyMap

\* C1: after build() and start() have started the services, a successful
\* stop_all() leaves no container of the project's list running.
C1_StopAllStopsEverything ==
    (last.op = "stop" /\ last.result = "ok" /\ last.flag)
        => \A n \in list_containers(containers, ProjectName) :
              containers[n].status # "running"

\* C2: once start_service(s) has succeeded, the operations that locate the
\* container by the service name s find {project}_{s}, never "not found".
C2_LocatesStartedContainer ==
    (last.op \in {"locate", "restart_service"} /\ last.service \in progress.started)
        => /\ last.result # "not_found"
           /\ last.result = "ok" => last.target = container_name(ProjectName, last.service)

\* C3: no two distinct services have been started bound to the same host port.
C3_DistinctHostPorts ==
    \A x, y \in progress.started :
        x # y => containers[container_name(ProjectName, x)].host_port
                 # containers[container_name(ProjectName, y)].host_port

\* C4: after build() the allocation has one entry per declared service, the
\* ports are pairwise distinct and none is below the base port.
C4_BuildAllocatesDistinctPorts ==
    progress.phase # "new"
        => /\ DOMAIN allocated_ports = Range(config.declared)
           /\ Cardinality(DOMAIN allocated_ports) = Len(config.declared)
           /\ \A x, y \in DOMAIN allocated_ports :
                 x # y => allocated_ports[x] # allocated_ports[y]
           /\ \A x \in DOMAIN allocated_ports : allocated_ports[x] >= PortBase

C4_Witness ==
    last.op = "build" /\ last.result = "ok" /\ Len(config.declared) >= 2

\* C5: build() on an Engine that has built before leaves every service on the
\* port it had, in whatever order the Engine enumerates its services.
C5_RebuildKeepsPorts ==
    [][(last'.op = "build" /\ last'.result = "ok" /\ progress.phase # "new")
          => allocated_ports' = allocated_ports]_vars

C5_Witness ==
    /\ last.op = "build" /\ last.result = "ok" /\ last.flag
    /\ Len(config.declared) >= 2
    /\ config.iteration # config.declared

\* C6: build() gives the i-th declared service (from 0) the port 5000 + i.
C6_PortsFollowDeclarationOrder ==
    (last.op = "build" /\ last.result = "ok")
        => \A i \in 1..Len(config.declared) :
              allocated_ports[config.declared[i]] = PortBase + (i - 1)

\* C7, as amended: a pair that was generated and saved is returned unchanged,
\* without the generator being called, by every later get_or_generate on the
\* same store, and on a fresh store that loaded the file provided the saved
\* map held only plain keys and plain values.
C7_SavedCredentialIsStable ==
    \A q \in ledger.known : \A gen \in inputs.values :
        LET g == get_or_generate(credentials, q[1], gen)
        IN  g.value = q[2] /\ ~g.generated

C7_Witness ==
    /\ last.op = "get_or_generate" /\ last.flag /\ ~last.generated
    /\ ledger.generated = {}
    /\ Cardinality(DOMAIN credentials) = 2

\* C7 as first stated: for every key, also on a fresh store that loaded the
\* file whatever the keys and values of the saved map.
C7_EveryKeyIsStable ==
    /\ C7_SavedCredentialIsStable
    /\ (last.op = "load" /\ last.result = "ok" /\ last.flag)
          => \A q \in ledger.disk : \A gen \in inputs.values :
                LET g == get_or_generate(credentials, q[1], gen)
                IN  g.value = q[2] /\ ~g.generated

\* C8: when get_or_generate returns a newly generated value, the file on
\* disk already holds key=value.
C8_GenerateWritesThrough ==
    (last.op = "get_or_generate" /\ last.generated)
        => /\ last.service \in DOMAIN Persisted(file)
           /\ Persisted(file)[last.service] = last.value

\* C9: a failed write of the credential file fails the start; no container
\* is created with a password the file does not hold; no password is
\* generated for a key the file already holds.
C9_CredentialFailureFailsStart ==
    [][last'.op \in {"start", "start_service"}
          => /\ ~last'.save_ok => last'.result # "ok"
             /\ \A n \in DOMAIN containers' :
                   (n \notin DOMAIN containers \/ containers'[n] # containers[n])
                      => \/ containers'[n].password = <<>>
                         \/ \E k \in DOMAIN Persisted(file') :
                               <<Persisted(file')[k]>> = containers'[n].password
             /\ \A k \in (DOMAIN credentials') \ (DOMAIN credentials) :
                   last'.generated => k \notin DOMAIN Persisted(file)]_vars

\* C10: whatever the outcome of save(), a file that existed holds afterwards
\* its complete previous contents or the complete new contents.
C10_SaveIsAtomic ==
    [][(last'.op = "save" /\ file.exists)
          => \/ file' = file
             \/ \E order \in Perms(DOMAIN credentials) :
                   file' = [exists |-> TRUE, content |-> save_content(credentials, order)]]_vars

\* C11: the lookup, the generation, the insertion and the file write of a
\* request run under the store's mutex, one request at a time; the value
\* generated for a key is the one the map holds, and every thread that was
\* handed a value for that key was handed that one.
C11_GenerationIsSerialized ==
    /\ \A t, u \in Tasks :
          (tasks.of[t].pc \in Section /\ tasks.of[u].pc \in Section) => t = u
    /\ \A t \in Tasks :
          tasks.of[t].pc \in {"saving", "unlock", "done"}
             => credentials[credential_key(tasks.of[t].service)] = tasks.of[t].value
    /\ \A t, u \in Tasks :
          (/\ tasks.of[t].pc = "done" /\ tasks.of[u].pc = "done"
           /\ tasks.of[t].service = tasks.of[u].service)
             => tasks.of[t].value = tasks.of[u].value

C11_Witness ==
    \E t, u \in Tasks :
        /\ tasks.of[t].pc = "done" /\ tasks.of[u].pc = "done"
        /\ tasks.of[t].service = tasks.of[u].service
        /\ tasks.of[t].generated /\ tasks.of[t].calls = 1
        /\ ~tasks.of[u].generated /\ tasks.of[u].waited /\ tasks.of[u].calls = 1

\* C12: resolving the credentials inside start_service neither blocks nor
\* aborts the task: no start ends in a panic.
C12_CredentialResolutionNeverAborts ==
    last.op \in {"start", "start_service"} => last.result # "panic"

\* the networks of the project the engine holds
ProjectNetworks == {i \in DOMAIN networks : networks[i] = network_name(ProjectName)}

C14_OneContainerPerService ==
    (last.op = "start" /\ last.result = "ok" /\ progress.phase = "up")
        => /\ Cardinality(ProjectNetworks) = 1
           /\ DOMAIN containers
                = {ProjectName \o <<"_">> \o x : x \in Range(config.declared)}
           /\ Cardinality(DOMAIN containers) = Len(config.declared)

C14_Witness ==
    /\ last.op = "start" /\ last.result = "ok" /\ progress.phase = "up"
    /\ Len(config.declared) = 2

\* C15: stop_service for a service whose container the engine does not hold
\* returns success and leaves every container as it was; any other error of
\* the engine's stop call is returned as a failure.
C15_StopOfMissingContainerSucceeds ==
    [][last'.op = "stop_service"
          => /\ last'.flag <=> (/\ last'.fault = "none"
                                /\ (ProjectName \o <<"_">> \o last'.service)
                                      \notin DOMAIN containers)
             /\ last'.flag => (last'.result = "ok" /\ containers' = containers)
             /\ last'.fault = "stop" => (last'.result = "err" /\ containers' = containers)]_vars

C15_Witness ==
    /\ last.op = "stop_service" /\ last.flag /\ last.result = "ok"
    /\ \E n \in DOMAIN containers : containers[n].status = "running"

\* C16: restart_service for a service whose container the engine does not
\* hold returns success, as stop_service does.
C16_RestartOfMissingContainerSucceeds ==
    (/\ last.op = "restart_service"
     /\ (ProjectName \o <<"_">> \o last.service) \notin DOMAIN containers)
        => last.result = "ok"

\* C17: when the image pull reports an error, start_service fails and no
\* container was removed, created or started.
C17_PullErrorChangesNothing ==
    [][(last'.op = "start_service" /\ last'.fault = "pull")
          => (last'.result = "err" /\ containers' = containers)]_vars

C17_Witness ==
    /\ last.op = "start_service" /\ last.fault = "pull"
    /\ (ProjectName \o <<"_">> \o last.service) \in DOMAIN containers
    /\ containers[ProjectName \o <<"_">> \o last.service].status = "running"

\* C18: wait_for_healthy terminates: a wait in progress ends, with a healthy
\* status or with the timeout failure; it has polled at most once per
\* 2-second interval of the timeout, plus the first poll and the one that
\* finds the deadline passed; and once a check that found the container
\* unhealthy has completed past the deadline, no other poll is started. A
\* wait that has timed out has just seen an unhealthy status past the deadline.
C18_WaitForHealthyTerminates ==
    /\ (health.pc \in {"checking", "sleeping"}) ~> (health.pc \in {"healthy", "timed_out"})
    /\ [](health.polls <= (health.timeout \div PollInterval) + 2)
    /\ [](health.late => health.pc = "timed_out")
    /\ [](health.pc = "timed_out" =>
            ~health.status.is_healthy /\ health.now > health.timeout)
    /\ [](health.pc = "healthy" => health.status.is_healthy)

C18_Witness ==
    /\ health.pc = "timed_out"
    /\ health.timeout = MaxTimeout
    /\ health.polls >= 3
    /\ health.service = mysql
    /\ health.probe.started /\ health.probe.exit = 1

\* C19: check_container on a container that the engine reports in a state
\* other than running yields a status that is not healthy, with the message
\* 'Container not running: <state>', whether or not the container declares a
\* health check of its own, and never runs the probe command.
C19_NotRunningIsNotHealthy ==
    (health.inspect.ok /\ health.inspect.state \in {"exited", "unknown"}) =>
        /\ ~health.status.is_healthy
        /\ Len(health.status.message) = 2
        /\ health.status.message[1] = "Container not running: "
        /\ ~health.status.probed

C19_Witness ==
    /\ health.pc = "idle"
    /\ health.inspect.ok /\ health.inspect.state = "exited"
    /\ health.inspect.native = "healthy"
    /\ health.service = mysql
    /\ health.status.message[1] = "Container not running: "

C21_PreferredIsFirstInstalledAndRunning ==
    (manager.op = "detect_runtimes" /\ manager.detections = 1 /\ manager.result = "ok") =>
        LET both == {i \in DOMAIN all_runtimes :
                        all_runtimes[i] \in manager.installed \cap manager.running}
            inst == {i \in DOMAIN all_runtimes : all_runtimes[i] \in manager.installed}
            first(S) == all_runtimes[CHOOSE i \in S : \A j \in S : i <= j]
        IN  manager.preferred_runtime = IF both # {} THEN first(both) ELSE first(inst)

\* C22: when no runtime is installed, detect_runtimes on a manager whose
\* available set is empty fails, the available set stays empty, no preferred
\* runtime is set, and a following get_preferred_runtime fails.
C22_NothingInstalledFails ==
    [][(/\ manager'.op = "detect_runtimes" /\ manager'.detections # manager.detections
        /\ manager'.installed = {} /\ manager.available_runtimes = <<>>) =>
            /\ manager'.result = "err"
            /\ manager'.available_runtimes = <<>>
            /\ manager'.preferred_runtime = "none"
            /\ get_preferred_runtime(manager').result = "err"]_vars

C22_Witness ==
    /\ manager.op = "get_preferred_runtime" /\ manager.result = "err"
    /\ manager.detections = 1 /\ manager.installed = {}
    /\ manager.available_runtimes = <<>>

\* C23: the available set and the preferred runtime after a detection are the
\* ones that detection yields on a new manager, whatever the manager went
\* through before: the available set is the installed runtimes once each, in
\* the priority order, and the preferred runtime is selected anew.
C23_DetectionIsFresh ==
    manager.op = "detect_runtimes" =>
        LET is_installed(r) == r \in manager.installed
            fresh == detect_runtimes(NoManager, manager.installed, manager.running)
        IN  /\ manager.available_runtimes = SelectSeq(all_runtimes, is_installed)
            /\ manager.preferred_runtime = fresh.manager.preferred_runtime
            /\ manager.result = fresh.result

\* C24: the manager prefers at most one runtime (preferred_runtime is one
\* runtime or none), a preferred runtime is among the available ones, and
\* set_preferred_runtime with a runtime that is not available fails and
\* leaves the preferred runtime as it was.
C24_PreferredIsAvailable ==
    /\ [](manager.preferred_runtime \in Runtimes \cup {"none"})
    /\ [](manager.preferred_runtime # "none" =>
            \E i \in DOMAIN manager.available_runtimes :
                manager.available_runtimes[i] = manager.preferred_runtime)
    /\ [][(/\ manager'.op = "set_preferred_runtime"
           /\ \A i \in DOMAIN manager.available_runtimes :
                 manager.available_runtimes[i] # manager'.arg) =>
             /\ manager'.result = "err"
             /\ manager'.preferred_runtime = manager.preferred_runtime
             /\ manager'.available_runtimes = manager.available_runtimes]_vars

C24_Witness ==
    /\ manager.op = "set_preferred_runtime" /\ manager.result = "err"
    /\ manager.arg = "Podman"
    /\ manager.preferred_runtime = "Docker"
    /\ manager.available_runtimes = <<"Docker", "Minikube">>

\* C25: list_containers returns only containers of this project, and
\* stop_all, restart_all and get_all_stats of this project stop, start and
\* report only containers of this project, and change the state of no
\* container of another project, also when the other project's name begins
\* with or contains this project's name.
C25_OnlyOwnContainers ==
    [][last'.op \in {"list_containers", "restart_all", "get_all_stats", "stop_all"} =>
         /\ \A i \in DOMAIN last'.calls : last'.calls[i][2] \in OwnNames
         /\ \A n \in OtherNames :
               (n \in DOMAIN containers) = (n \in DOMAIN containers')
                  /\ (n \in DOMAIN containers => containers'[n] = containers[n])]_vars

\* C26: when the log stream or the output stream of an exec reports an
\* error, get_logs, exec_command and exec_command_with_output return a
\* failure, never a success with the output cut at the error.
C26_StreamErrorIsFailure ==
    (last.op = "locate" /\ last.fault = "stream") => last.result = "err"

\* C27: stop_log_stream(s) removes the handle registered for s and no other,
\* aborts the task that handle names and no other, and leaves the tasks and
\* the handles of every other service, and the calls under way, as they were.
C27_StopTouchesOneStream ==
    [][last'.op = "stop_log_stream" =>
         LET sv == last'.service
             h == log_streams.handles
             h2 == log_streams'.handles
         IN  /\ DOMAIN h2 = (DOMAIN h) \ {sv}
             /\ \A x \in DOMAIN h2 : h2[x] = h[x]
             /\ DOMAIN log_streams'.tasks = DOMAIN log_streams.tasks
             /\ \A t \in DOMAIN log_streams.tasks :
                   IF sv \in DOMAIN h /\ h[sv] = t
                   THEN log_streams'.tasks[t].state =
                            (IF log_streams.tasks[t].state = "running" THEN "aborted"
                             ELSE log_streams.tasks[t].state)
                   ELSE log_streams'.tasks[t] = log_streams.tasks[t]
             /\ log_streams'.pending = log_streams.pending]_vars

C27_Witness ==
    /\ last.op = "stop_log_stream" /\ last.service = web /\ last.flag
    /\ mysql \in DOMAIN log_streams.handles
    /\ log_streams.tasks[log_streams.handles[mysql]].state = "running"
    /\ \E t \in DOMAIN log_streams.tasks :
          log_streams.tasks[t].service = web /\ log_streams.tasks[t].state = "aborted"

\* C28: generate_alphanumeric(n) returns exactly n characters, each one of
\* A-Z, a-z, 0-9, for every n >= 0; generate_jwt_secret, generate_api_key and
\* generate_db_password return 64, 32 and 24 such characters.
C28_SecretsAreAlphanumeric ==
    LET alphanumeric ==
            {"A", "B", "C", "D", "E", "F", "G", "H", "I", "J", "K", "L", "M", "N", "O",
             "P", "Q", "R", "S", "T", "U", "V", "W", "X", "Y", "Z"} \cup
            {"a", "b", "c", "d", "e", "f", "g", "h", "i", "j", "k", "l", "m", "n", "o",
             "p", "q", "r", "s", "t", "u", "v", "w", "x", "y", "z"} \cup
            {"0", "1", "2", "3", "4", "5", "6", "7", "8", "9"}
        of_length(n) ==
            Len(last.value) = n /\ \A i \in 1..n : last.value[i] \in alphanumeric
    IN  /\ last.op = "generate_alphanumeric" => of_length(last.length)
        /\ last.op = "generate_jwt_secret" => of_length(64)
        /\ last.op = "generate_api_key" => of_length(32)
        /\ last.op = "generate_db_password" => of_length(24)

C28_Witness ==
    /\ last.op = "generate_db_password"
    /\ Len(last.value) = 24
    /\ last.value[1] = "9" /\ last.value[2] = "A" /\ last.value[24] = "W"

\* C29: after any sequence of process_env_vars calls, every key of the
\* secrets map is a key of the environment map, with the same value.
C29_SecretsAreInEnvironment ==
    \A k \in DOMAIN env_manager.secrets :
        k \in DOMAIN env_manager.env_vars
            /\ env_manager.env_vars[k] = env_manager.secrets[k]

\* C30: restart_service on a container it located first calls stop and then,
\* only when stop succeeded, start, both on that container; when stop fails
\* the error is returned, start is not called and no container changes; when
\* no container is located neither call is made.
C30_RestartIsStopThenStart ==
    [][last'.op = "restart_service" =>
         LET stop == <<"stop", last'.target>>
             start == <<"start", last'.target>>
         IN  IF last'.target = <<>>
             THEN last'.calls = <<>> /\ last'.result # "ok" /\ containers' = containers
             ELSE IF last'.fault = "stop"
             THEN /\ last'.calls = <<stop>>
                  /\ last'.result = "err"
                  /\ containers' = containers
             ELSE /\ last'.calls = <<stop, start>>
                  /\ last'.result = "ok" => containers'[last'.target].status = "running"]_vars

C30_Witness ==
    /\ last.op = "restart_service" /\ last.fault = "stop" /\ last.result = "err"
    /\ last.calls = <<<<"stop", ProjectName \o <<"_">> \o web>>>>
    /\ containers[ProjectName \o <<"_">> \o web].status = "running"

\* C31: when start_service reaches the removal of the container of the same
\* name, the creation of the container is requested whether or not the
\* removal failed; a failed removal is only logged, so that with no container
\* of that name the container is created all the same; and the removal is
\* logged as failed only on an error of the engine, never because the
\* container does not exist.
C31_RemoveFailureIsNotFatal ==
    [][(last'.op = "start_service" /\ "remove" \in Range(last'.calls)) =>
          LET name == container_name(ProjectName, last'.service)
          IN  /\ "create" \in Range(last'.calls)
              /\ last'.flag <=> last'.fault = "remove"
              /\ remove_container(containers, name, last'.fault).result = "err"
                    <=> last'.fault = "remove"
              /\ (last'.fault = "remove" /\ name \notin DOMAIN containers)
                    => name \in DOMAIN containers']_vars

\* a removal failed, was logged, and the service started all the same
C31_Witness ==
    /\ last.op = "start_service"
    /\ last.fault = "remove"
    /\ last.flag
    /\ last.result = "ok"
    /\ container_name(ProjectName, last.service) \in DOMAIN containers
    /\ containers[container_name(ProjectName, last.service)].status = "running"

\* C32: when inspect_container fails, check_container returns a status, not
\* an error: not healthy, with the message 'Failed to inspect container:
\* <error>', the probe not run; so a wait whose check met a failed inspection
\* does not fail at once: it sleeps and polls again while the deadline has not
\* passed and times out once it has.
C32_InspectFailureIsAStatus ==
    ~health.inspect.ok =>
        /\ ~health.status.err
        /\ ~health.status.is_healthy
        /\ ~health.status.probed
        /\ health.status.message = <<"Failed to inspect container: ", "error">>
        /\ health.pc \in {"idle", "checking", "sleeping", "timed_out"}
        /\ (health.polls >= 1 /\ health.pc # "checking") =>
              health.pc = IF health.now > health.timeout THEN "timed_out" ELSE "sleeping"

\* a wait that polled at least twice, met a failed inspection and goes on
C32_Witness ==
    /\ health.pc = "sleeping"
    /\ health.polls >= 2
    /\ ~health.inspect.ok
    /\ health.timeout = MaxTimeout

\* C33: for a container that the engine reports running and for which it
\* reports a health status of its own, check_container reports healthy
\* exactly when that status is healthy (starting, none and unhealthy are not
\* healthy), and the probe command of the service is not run.
C33_NativeHealthDecides ==
    (/\ health.inspect.ok
     /\ health.inspect.state = "running"
     /\ health.inspect.native # "none") =>
        /\ health.status.is_healthy <=> health.inspect.native = "healthy"
        /\ ~health.status.probed

\* C40: wait_for_healthy returns success only after a check whose status is
\* healthy, and it returns it after every such check, even one that ends past
\* the deadline (a zero timeout included); a check that is not healthy is never
\* returned as success: the wait sleeps and polls again, or fails once the
\* deadline has passed; and no wait ends without a check.
C40_SuccessOnlyWhenHealthy ==
    /\ health.pc = "healthy" => (health.status.is_healthy /\ health.polls >= 1)
    /\ health.pc = "timed_out" => (~health.status.is_healthy /\ health.polls >= 1)
    /\ health.pc = "sleeping" => (~health.status.is_healthy /\ health.polls >= 1)
    /\ (health.polls >= 1 /\ health.status.is_healthy) => health.pc = "healthy"
    /\ health.pc # "failed"

\* a wait with a zero timeout whose first check took a second and was healthy
C40_Witness ==
    /\ health.pc = "healthy"
    /\ health.timeout = 0
    /\ health.polls = 1
    /\ health.now = MaxCheckTime
    /\ health.status.is_healthy

\* C34: a fresh store that loads the file of a complete save holds exactly
\* the saved map (the header lines and the blank line add no entry), whenever
\* no key and no value of that map holds a line feed or begins or ends with
\* whitespace, and no key holds '=' or begins with '#'.
C34_SaveThenLoadIsIdentity ==
    LET Tidy(s) ==
            /\ \A i \in 1..Len(s) : s[i] # "\n"
            /\ s # <<>> => (s[1] \notin Whitespace /\ s[Len(s)] \notin Whitespace)
        TidyKey(k) ==
            /\ Tidy(k)
            /\ \A i \in 1..Len(k) : k[i] # "="
            /\ k # <<>> => k[1] # "#"
    IN  (/\ last.op = "load" /\ last.result = "ok" /\ last.flag
         /\ ledger.whole
         /\ \A k \in DOMAIN ledger.saved : TidyKey(k) /\ Tidy(ledger.saved[k]))
            => credentials = ledger.saved

\* a fresh store loaded a saved map of two entries, one under the empty key
C34_Witness ==
    /\ last.op = "load" /\ last.result = "ok" /\ last.flag
    /\ ledger.whole
    /\ DOMAIN ledger.saved = {<<>>, <<"K">>}
    /\ \A k \in DOMAIN ledger.saved : ledger.saved[k] = <<"x">>
    /\ credentials = ledger.saved

\* C35: when two orchestrators on one project directory, each constructed
\* before the other saved, have each generated and saved credentials, under
\* keys the other did not generate, the credential file holds the keys of
\* both.
C35_NoSaveDropsAnothersCredential ==
    \A i, j \in Instances :
        (/\ i # j
         /\ stores[i].alive /\ stores[j].alive
         /\ stores[i].early /\ stores[j].early
         /\ stores[i].generated # {} /\ stores[j].generated # {}
         /\ stores[i].generated \cap stores[j].generated = {})
            => (stores[i].generated \cup stores[j].generated) \subseteq DOMAIN Persisted(file)

\* C36: every running log-stream task has its abort handle registered under
\* its service name, so that no service has two running streams and every
\* running stream can be stopped, whatever the order and the overlap of the
\* start_log_stream and stop_log_stream calls.
C36_RunningStreamsAreRegistered ==
    \A t \in DOMAIN log_streams.tasks :
        log_streams.tasks[t].state = "running" =>
            /\ log_streams.tasks[t].service \in DOMAIN log_streams.handles
            /\ log_streams.handles[log_streams.tasks[t].service] = t

\* C37: a start_service that succeeds while a container {project}_{service}
\* exists (a second start of the service) first removes that container, then
\* creates the new one, then starts it; when the new container is created no
\* container of that name exists; afterwards the container of that name is
\* the new one, running, and no other container has changed.
C37_SecondStartReplacesContainer ==
    [][(last'.op = "start_service" /\ last'.result = "ok") =>
          LET name == ProjectName \o <<"_">> \o last'.service
          IN  /\ last'.calls = <<"pull", "remove", "create", "start">>
              /\ name \in DOMAIN containers => (last'.target = name /\ ~last'.flag)
              /\ name \notin DOMAIN remove_container(containers, name, last'.fault).containers
              /\ name \in DOMAIN containers'
              /\ containers'[name].status = "running"
              /\ (DOMAIN containers') \ {name} = (DOMAIN containers) \ {name}
              /\ \A n \in (DOMAIN containers) \ {name} : containers'[n] = containers[n]]_vars

\* a start_service that succeeded and replaced a container of the same name
C37_Witness ==
    /\ last.op = "start_service"
    /\ last.result = "ok"
    /\ last.service = mysql
    /\ last.target = ProjectName \o <<"_">> \o mysql
    /\ ~last.generated
    /\ containers[ProjectName \o <<"_">> \o mysql].status = "running"

\* C38: when start_service fails for a service during Engine::start, start
\* returns that failure at once: start_service was called once for each
\* service up to the failing one, in the order of the services, and for none
\* after it; the containers of the services before it are running, and the
\* containers of the services after it are as they were.
C38_StartStopsAtFirstFailure ==
    [][(last'.op = "start" /\ last'.result = "err") =>
          LET svcs == get_services(config)
              n == Len(last'.calls)
              name(i) == ProjectName \o <<"_">> \o svcs[i]
          IN  /\ n \in 1..Len(svcs)
              /\ last'.calls = SubSeq(svcs, 1, n)
              /\ \A i \in 1..(n - 1) :
                    /\ name(i) \in DOMAIN containers'
                    /\ containers'[name(i)].status = "running"
              /\ \A i \in (n + 1)..Len(svcs) :
                    /\ name(i) \in DOMAIN containers' <=> name(i) \in DOMAIN containers
                    /\ name(i) \in DOMAIN containers =>
                          containers'[name(i)] = containers[name(i)]]_vars

\* a start that failed at its first service and left the container of the
\* second one exited as it was
C38_Witness ==
    /\ last.op = "start" /\ last.result = "err"
    /\ Len(get_services(config)) = 2
    /\ last.calls = <<get_services(config)[1]>>
    /\ ProjectName \o <<"_">> \o get_services(config)[2] \in DOMAIN containers
    /\ containers[ProjectName \o <<"_">> \o get_services(config)[2]].status = "exited"

\* a start that failed at its second service and left the first one running
C38_WitnessStarted ==
    /\ last.op = "start" /\ last.result = "err"
    /\ Len(last.calls) = 2
    /\ containers[ProjectName \o <<"_">> \o last.calls[1]].status = "running"

\* C39: start_service for a service whose name is none of postgres, mysql,
\* mongodb, mongo and rabbitmq generates no password, puts none into the
\* environment of the container, and leaves the credential map of the store
\* and the credential file as they were.
C39_OtherServicesGetNoCredential ==
    [][(last'.op = "start_service"
        /\ last'.service \notin {postgres, mysql, mongodb, mongo, rabbitmq}) =>
          LET name == ProjectName \o <<"_">> \o last'.service
          IN  /\ ~last'.generated
              /\ credentials' = credentials
              /\ file' = file
              /\ name \in DOMAIN containers' => containers'[name].password = <<>>]_vars

\* web was started beside a store that holds the password of mysql
C39_Witness ==
    /\ last.op = "start_service" /\ last.service = web /\ last.result = "ok"
    /\ DOMAIN credentials = {mysql \o CredentialSuffix(mysql)}
    /\ file.exists
    /\ containers[ProjectName \o <<"_">> \o web].status = "running"
    /\ containers[ProjectName \o <<"_">> \o web].password = <<>>

====
